---------------------------- MODULE Spec2Model ----------------------------
(***************************************************************************)
(* A model of the reconstruction pipeline of the MassGen session viewer    *)
(* (src/app.js): the restricted YAML parser, the path classifier, the      *)
(* per-turn aggregation of extractSessionData, the coordination graph of   *)
(* renderTimeline, the vote labels of renderAnswers, the content           *)
(* resolution of parseGistFiles and the turn selection.                    *)
(*                                                                         *)
(* A JavaScript string is a sequence of one-character strings, so that     *)
(* split, slice, indexOf, trim and the regular expressions of the source   *)
(* are computed character by character.  A JavaScript value is a tagged    *)
(* record (JNull, JBool, JNum, JStr, JRef).  Objects and arrays live in a  *)
(* heap and are referred to by their index, so that aliasing between the   *)
(* parser's stack frames and the result tree is kept.                      *)
(***************************************************************************)
EXTENDS Integers, Sequences, FiniteSets, TLC

VARIABLES
    yText,      \* parseYaml: the input text (yamlStr)
    yLines,     \* parseYaml: yamlStr.split('\n')
    yI,         \* parseYaml: number of lines processed (the loop index i)
    yHeap,      \* parseYaml: the objects and arrays allocated so far; 1 is result
    yStack,     \* parseYaml: the indentation stack
    yPc         \* parseYaml: "loop" while in the for loop, "done" after return

yamlVars == <<yText, yLines, yI, yHeap, yStack, yPc>>

VARIABLES
    pPath,      \* classification: the "/"-separated path
    pNested,    \* classification: the identity of pPath
    pFlat,      \* classification: the identity of pPath written with "__"
    pPc         \* classification: "start", "nested", "done"

pathVars == <<pPath, pNested, pFlat, pPc>>

VARIABLES
    gEvents,    \* renderTimeline: coordination.events of the turn shown
    gStartMeta, \* renderTimeline: coordination.session_metadata.start_time
    gOut,       \* renderTimeline: what the call computed
    gPc         \* renderTimeline: "start", "done"

graphVars == <<gEvents, gStartMeta, gOut, gPc>>

VARIABLES
    sFiles,     \* extractSessionData: the file map, in key order
    sOut,       \* extractSessionData: the session model, or the exception
    sPc         \* extractSessionData: "start", "done"

sessVars == <<sFiles, sOut, sPc>>

VARIABLES
    aData,      \* renderAnswers: the turn-filtered data
    aOut,       \* renderAnswers: the vote labels displayed
    aPc         \* renderAnswers: "start", "done"

ansVars == <<aData, aOut, aPc>>

VARIABLES
    cToken,     \* parseYamlValue: the token (str)
    cValue,     \* parseYamlValue: the value returned for cToken
    cAgain,     \* parseYamlValue: the value returned for String(cValue)
    cPc         \* "start", "coerced", "done"

coerceVars == <<cToken, cValue, cAgain, cPc>>

VARIABLES
    fGist,      \* parseGistFiles: gist.files, in order
    fPromises,  \* parseGistFiles: fetchPromises, each pending or settled
    fFiles,     \* parseGistFiles: the file map files
    fCore,      \* init: the file map handed to extractSessionData
    fPc         \* "start", "await", "returned", "core"

fetchVars == <<fGist, fPromises, fFiles, fCore, fPc>>

VARIABLES
    tFiles,          \* init: the file map parseGistFiles returned
    tData,           \* sessionData
    tCurrentTurn,    \* currentTurn
    tTryDisplay,     \* style.display of the element try-session-section
    tShown,          \* the filtered data of the last rendering of the sections
    tWorkspaceShown, \* the workspace files of the last renderWorkspace
    tPc              \* "start", "rendered", "error"

turnVars == <<tFiles, tData, tCurrentTurn, tTryDisplay, tShown, tWorkspaceShown, tPc>>

vars == <<yamlVars, pathVars, graphVars, sessVars, ansVars, coerceVars, fetchVars, turnVars>>

\* the variables each component leaves alone
notYaml == <<pathVars, graphVars, sessVars, ansVars, coerceVars, fetchVars, turnVars>>
notPath == <<yamlVars, graphVars, sessVars, ansVars, coerceVars, fetchVars, turnVars>>
notGraph == <<yamlVars, pathVars, sessVars, ansVars, coerceVars, fetchVars, turnVars>>
notSess == <<yamlVars, pathVars, graphVars, ansVars, coerceVars, fetchVars, turnVars>>
notAns == <<yamlVars, pathVars, graphVars, sessVars, coerceVars, fetchVars, turnVars>>
notCoerce == <<yamlVars, pathVars, graphVars, sessVars, ansVars, fetchVars, turnVars>>
notFetch == <<yamlVars, pathVars, graphVars, sessVars, ansVars, coerceVars, turnVars>>
notTurn == <<yamlVars, pathVars, graphVars, sessVars, ansVars, coerceVars, fetchVars>>

----------------------------------------------------------------------------
(* Bounds of the model.                                                    *)

\* the longest generated YAML text, in lines
MaxYamlLines == 3

\* the longest generated event list
MaxEvents == 3

\* the largest turn number and attempt number of a generated path
MaxTurn == 2

MaxAttempt == 2

\* the largest number of files in a file map
MaxFiles == 2

\* the largest number of votes in the votes of a session
MaxVotes == 2

\* the longest generated scalar token, in characters
MaxTokenLen == 3

\* the largest number of files of a gist
MaxGistFiles == 2

----------------------------------------------------------------------------
(* JavaScript strings as sequences of characters.                          *)

\* the characters of the model in UTF-16 code unit order
CharOrder ==
    <<"\n", " ", "\"", "#", "'", "-", ".", "/",
      "0", "1", "2", "3", "4", "5", "6", "7", "8", "9", ":",
      "_", "a", "b", "c", "d", "e", "f", "g", "h", "i", "j", "k", "l", "m",
      "n", "o", "p", "q", "r", "s", "t", "u", "v", "w", "x", "y", "z", "~">>

Code(c) == CHOOSE i \in 1..Len(CharOrder) : CharOrder[i] = c

Digits == <<"0", "1", "2", "3", "4", "5", "6", "7", "8", "9">>

IsDigit(c) == c \in {"0", "1", "2", "3", "4", "5", "6", "7", "8", "9"}

IsLower(c) == Code(c) >= Code("a") /\ Code(c) <= Code("z")

IsSpace(c) == c \in {" ", "\n"}

DigitVal(c) == (CHOOSE i \in 1..10 : Digits[i] = c) - 1

\* s.slice(from, to) with 0-based from (inclusive) and to (exclusive)
Slice(s, from, to) ==
    LET f == IF from < 0 THEN 0 ELSE from
        t == IF to > Len(s) THEN Len(s) ELSE to
    IN  IF t <= f THEN <<>> ELSE SubSeq(s, f + 1, t)

SliceFrom(s, from) == Slice(s, from, Len(s))

\* whether p occurs in s at the 0-based position i
MatchAt(s, p, i) ==
    /\ i >= 0
    /\ i + Len(p) <= Len(s)
    /\ \A k \in 1..Len(p) : s[i + k] = p[k]

StartsWith(s, p) == MatchAt(s, p, 0)

EndsWith(s, p) == MatchAt(s, p, Len(s) - Len(p))

\* s.indexOf(p): the 0-based position of the first occurrence, or -1
IndexOf(s, p) ==
    LET hits == {i \in 0..Len(s) : MatchAt(s, p, i)}
    IN  IF hits = {} THEN -1
        ELSE CHOOSE i \in hits : \A j \in hits : i <= j

Includes(s, p) == IndexOf(s, p) >= 0

\* line.search(/\S/): the 0-based position of the first non-blank, or -1
SearchNonSpace(s) ==
    LET hits == {i \in 1..Len(s) : ~IsSpace(s[i])}
    IN  IF hits = {} THEN -1
        ELSE (CHOOSE i \in hits : \A j \in hits : i <= j) - 1

\* s.trim()
Trim(s) ==
    LET hits == {i \in 1..Len(s) : ~IsSpace(s[i])}
    IN  IF hits = {} THEN <<>>
        ELSE SubSeq(s, CHOOSE i \in hits : \A j \in hits : i <= j,
                       CHOOSE i \in hits : \A j \in hits : i >= j)

RECURSIVE Split(_, _)
\* s.split(sep) for a non-empty separator
Split(s, sep) ==
    LET i == IndexOf(s, sep)
    IN  IF i < 0 THEN <<s>>
        ELSE <<Slice(s, 0, i)>> \o Split(SliceFrom(s, i + Len(sep)), sep)

RECURSIVE ReplaceAll(_, _, _)
\* s.replace(/a/g, b) for a literal a
ReplaceAll(s, a, b) ==
    LET i == IndexOf(s, a)
    IN  IF i < 0 THEN s
        ELSE Slice(s, 0, i) \o b \o ReplaceAll(SliceFrom(s, i + Len(a)), a, b)

RECURSIVE Concat(_)
\* the concatenation of a sequence of strings
Concat(ss) == IF ss = <<>> THEN <<>> ELSE Head(ss) \o Concat(Tail(ss))

\* the number of leading digits of s
DigitRun(s) ==
    LET stops == {i \in 1..Len(s) : ~IsDigit(s[i])}
    IN  IF stops = {} THEN Len(s)
        ELSE (CHOOSE i \in stops : \A j \in stops : i <= j) - 1

RECURSIVE DigitsToNat(_)
\* parseInt(s, 10) of a string of digits
DigitsToNat(s) ==
    IF s = <<>> THEN 0
    ELSE DigitsToNat(SubSeq(s, 1, Len(s) - 1)) * 10 + DigitVal(s[Len(s)])

RECURSIVE NatToStr(_)
\* String(n) of a non-negative integer
NatToStr(n) ==
    IF n < 10 THEN <<Digits[n + 1]>>
    ELSE NatToStr(n \div 10) \o <<Digits[(n % 10) + 1]>>

\* a < b in code unit order (the default order of Array.prototype.sort)
StrLess(a, b) ==
    \E i \in 1..(Len(a) + 1) :
        /\ i <= Len(b)
        /\ \A k \in 1..(i - 1) : k <= Len(a) /\ a[k] = b[k]
        /\ \/ i = Len(a) + 1
           \/ i <= Len(a) /\ Code(a[i]) < Code(b[i])

----------------------------------------------------------------------------
(* JavaScript values.                                                      *)

JNull == [t |-> "null"]
JUndef == [t |-> "undefined"]
JBool(b) == [t |-> "bool", b |-> b]
\* a number: sign, integer part and the decimal digits after the point
\* without trailing zeros (integers and floats are one type in JavaScript)
JNum(neg, ip, fp) == [t |-> "num", neg |-> neg, ip |-> ip, fp |-> fp]
JInt(n) == JNum(n < 0, IF n < 0 THEN -n ELSE n, <<>>)
JStr(s) == [t |-> "str", s |-> s]
JRef(id) == [t |-> "ref", id |-> id]

\* a heap cell: an object ({}), or an array ([]) with its items; both carry
\* named own properties
NewObject == [isArr |-> FALSE, items |-> <<>>, props |-> [k \in {} |-> JNull]]
NewArray == [isArr |-> TRUE, items |-> <<>>, props |-> [k \in {} |-> JNull]]

\* obj[key] = value
SetProp(node, key, value) ==
    [node EXCEPT !.props =
        [k \in (DOMAIN node.props) \cup {key} |->
            IF k = key THEN value ELSE node.props[k]]]

\* obj[key] !== undefined
HasProp(node, key) == key \in DOMAIN node.props

----------------------------------------------------------------------------
(* parseYamlValue and parseYaml (src/app.js 218-312).  The result of a     *)
(* line is the heap and the stack after it, and whether the line raised a  *)
(* RangeError (an assignment to the length of an array).                   *)

RECURSIVE StripTrailingZeros(_)
StripTrailingZeros(ds) ==
    IF ds # <<>> /\ ds[Len(ds)] = "0"
    THEN StripTrailingZeros(SubSeq(ds, 1, Len(ds) - 1))
    ELSE ds

\* /^-?\d+$/.test(str)
IsIntToken(str) ==
    LET body == IF StartsWith(str, <<"-">>) THEN Tail(str) ELSE str
    IN  body # <<>> /\ DigitRun(body) = Len(body)

\* /^-?\d+\.\d+$/.test(str)
IsFloatToken(str) ==
    LET body == IF StartsWith(str, <<"-">>) THEN Tail(str) ELSE str
        n == DigitRun(body)
        rest == SliceFrom(body, n + 1)
    IN  /\ n >= 1
        /\ n < Len(body)
        /\ body[n + 1] = "."
        /\ rest # <<>>
        /\ DigitRun(rest) = Len(rest)

\* parseInt(str, 10) and parseFloat(str) of a token matching the patterns
\* above (-0 and 0 are the same number under ===)
ParseNumber(str) ==
    LET neg == StartsWith(str, <<"-">>)
        body == IF neg THEN Tail(str) ELSE str
        n == DigitRun(body)
        ip == DigitsToNat(Slice(body, 0, n))
        fp == StripTrailingZeros(SliceFrom(body, n + 1))
    IN  JNum(neg /\ (ip # 0 \/ fp # <<>>), ip, fp)

parseYamlValue(str) ==
    IF str = <<>> THEN JNull
    ELSE IF str = <<"t", "r", "u", "e">> THEN JBool(TRUE)
    ELSE IF str = <<"f", "a", "l", "s", "e">> THEN JBool(FALSE)
    ELSE IF str = <<"n", "u", "l", "l">> \/ str = <<"~">> THEN JNull
    ELSE IF IsIntToken(str) THEN ParseNumber(str)
    ELSE IF IsFloatToken(str) THEN ParseNumber(str)
    ELSE IF \/ StartsWith(str, <<"'">>) /\ EndsWith(str, <<"'">>)
            \/ StartsWith(str, <<"\"">>) /\ EndsWith(str, <<"\"">>)
         THEN JStr(Slice(str, 1, Len(str) - 1))
    ELSE JStr(str)

\* a stack frame { obj, indent, key }; key is JNull for the root frame
Frame(obj, indent, key) == [obj |-> obj, indent |-> indent, key |-> key]

RootFrame == Frame(1, -2, JNull)

RECURSIVE PopFrames_DeeperOnly(_, _)
\* the pop loop with > in place of >=: a frame at the line's indent stays
PopFrames_DeeperOnly(stack, indent) ==
    IF Len(stack) > 1 /\ stack[Len(stack)].indent > indent
    THEN PopFrames_DeeperOnly(SubSeq(stack, 1, Len(stack) - 1), indent)
    ELSE stack

RECURSIVE PopFrames(_, _)
\* while (stack.length > 1 && stack[stack.length - 1].indent >= indent) pop
PopFrames(stack, indent) ==
    IF Len(stack) > 1 /\ stack[Len(stack)].indent >= indent
    THEN PopFrames(SubSeq(stack, 1, Len(stack) - 1), indent)
    ELSE stack

\* a key is truthy when it is a non-empty string
KeyTruthy(key) == key # JNull /\ key # JStr(<<>>)

\* the value bound by "key: value": {} for an empty value, else the scalar;
\* next is the heap index a new {} would get
BoundValue(value, next) ==
    IF value = <<>> THEN JRef(next) ELSE parseYamlValue(value)

\* the "- key: value" branch (lines 245-269) on the popped stack
YamlSeqMapItem(heap, stack, indent, afterDash, colonIdx) ==
    LET key == Trim(Slice(afterDash, 0, colonIdx))
        value == Trim(SliceFrom(afterDash, colonIdx + 1))
        parentInfo == stack[Len(stack)]
        grandparent == IF Len(stack) > 1 THEN stack[Len(stack) - 1].obj ELSE 1
        lastKey == parentInfo.key
        convert == /\ ~heap[parentInfo.obj].isArr
                   /\ KeyTruthy(lastKey)
                   /\ HasProp(heap[grandparent], lastKey.s)
        \* grandparent[lastKey] = []; parent = grandparent[lastKey]
        arrId == Len(heap) + 1
        heap1 == IF convert
                 THEN Append([heap EXCEPT ![grandparent] =
                                 SetProp(@, lastKey.s, JRef(arrId))], NewArray)
                 ELSE heap
        parent == IF convert THEN arrId ELSE parentInfo.obj
        stack1 == IF convert
                  THEN [stack EXCEPT ![Len(stack)] =
                           Frame(parent, parentInfo.indent, lastKey)]
                  ELSE stack
        \* newObj = {}; newObj[key] = value === '' ? {} : parseYamlValue(value)
        objId == Len(heap1) + 1
        inner == BoundValue(value, objId + 1)
        heap2 == Append(heap1, SetProp(NewObject, key, inner))
        heap3 == IF value = <<>> THEN Append(heap2, NewObject) ELSE heap2
    IN  IF heap1[parent].isArr
        THEN [heap  |-> [heap3 EXCEPT ![parent].items = Append(@, JRef(objId))],
              stack |-> Append(stack1, Frame(objId, indent + 2, JStr(key))),
              thrown |-> FALSE]
        ELSE [heap |-> heap1, stack |-> stack1, thrown |-> FALSE]  \* newObj is dropped

\* the "- value" branch (lines 270-276)
YamlSeqScalarItem(heap, stack, afterDash) ==
    LET value == parseYamlValue(Trim(afterDash))
        parent == stack[Len(stack)].obj
    IN  IF heap[parent].isArr
        THEN [heap  |-> [heap EXCEPT ![parent].items = Append(@, value)],
              stack |-> stack, thrown |-> FALSE]
        ELSE [heap |-> heap, stack |-> stack, thrown |-> FALSE]

K_length == <<"l", "e", "n", "g", "t", "h">>

\* the length an assignment array.length = v sets, -1 when the assignment
\* raises RangeError (ToUint32(v) differs from ToNumber(v)); a string of the
\* model is a valid length when it is empty or all digits
ArrayLengthOf(v) ==
    IF v.t = "num" THEN (IF ~v.neg /\ v.fp = <<>> THEN v.ip ELSE -1)
    ELSE IF v.t = "bool" THEN (IF v.b THEN 1 ELSE 0)
    ELSE IF v.t = "null" THEN 0
    ELSE IF v.t = "str"
    THEN (IF DigitRun(v.s) = Len(v.s) THEN DigitsToNat(v.s) ELSE -1)
    ELSE -1

\* array.length = n: the items are cut to n, or holes are added
SetLength(node, n) ==
    [node EXCEPT !.items =
        [k \in 1..n |-> IF k <= Len(node.items) THEN node.items[k] ELSE JUndef]]

\* the "key: value" branch (lines 280-293); parent[key] = value raises
\* RangeError when parent is an array, key is "length" and value is not a
\* valid array length
YamlMapEntry(heap, stack, indent, content) ==
    LET colonIdx == IndexOf(content, <<":">>)
        key == Trim(Slice(content, 0, colonIdx))
        value == Trim(SliceFrom(content, colonIdx + 1))
        parent == stack[Len(stack)].obj
        objId == Len(heap) + 1
        isLength == heap[parent].isArr /\ key = K_length
        length == IF value = <<>> THEN -1 ELSE ArrayLengthOf(parseYamlValue(value))
    IN  IF colonIdx > 0
        THEN IF isLength
             THEN IF length < 0
                  THEN [heap |-> heap, stack |-> stack, thrown |-> TRUE]
                  ELSE [heap  |-> [heap EXCEPT ![parent] = SetLength(@, length)],
                        stack |-> stack, thrown |-> FALSE]
             ELSE IF value = <<>>
             THEN [heap  |-> Append([heap EXCEPT ![parent] =
                                        SetProp(@, key, JRef(objId))], NewObject),
                   stack |-> Append(stack, Frame(objId, indent, JStr(key))),
                   thrown |-> FALSE]
             ELSE [heap  |-> [heap EXCEPT ![parent] =
                                 SetProp(@, key, parseYamlValue(value))],
                   stack |-> stack, thrown |-> FALSE]
        ELSE [heap |-> heap, stack |-> stack, thrown |-> FALSE]

\* one iteration of the for loop of parseYaml (lines 223-294)
parseYamlLine(line, heap, stack) ==
    IF Trim(line) = <<>> \/ StartsWith(Trim(line), <<"#">>)
    THEN [heap |-> heap, stack |-> stack, thrown |-> FALSE]
    ELSE LET indent == SearchNonSpace(line)
             content == Trim(line)
             popped == PopFrames(stack, indent)
         IN  IF StartsWith(content, <<"-", " ">>)
             THEN LET afterDash == SliceFrom(content, 2)
                      colonIdx == IndexOf(afterDash, <<":">>)
                  IN  IF colonIdx > 0
                      THEN YamlSeqMapItem(heap, popped, indent, afterDash, colonIdx)
                      ELSE YamlSeqScalarItem(heap, popped, afterDash)
             ELSE YamlMapEntry(heap, popped, indent, content)

RECURSIVE Materialize(_, _)
\* the value at a heap reference as a tree: an object is the function from
\* its keys to its values, an array the record of its items and of the named
\* properties set on it
Materialize(heap, v) ==
    IF v.t # "ref" THEN v
    ELSE LET node == heap[v.id]
             props == [k \in DOMAIN node.props |-> Materialize(heap, node.props[k])]
         IN  IF node.isArr
             THEN [items |-> [i \in 1..Len(node.items) |->
                                 Materialize(heap, node.items[i])],
                   props |-> props]
             ELSE [obj |-> props]

\* the value parseYaml returns
parseYamlResult == Materialize(yHeap, JRef(1))

----------------------------------------------------------------------------
(* The YAML texts parseYaml is run on.                                     *)

L_agents == <<"a", "g", "e", "n", "t", "s", ":">>

L_item_id_a == <<" ", " ", "-", " ", "i", "d", ":", " ", "a">>

L_model_m1 == <<" ", " ", " ", " ", "m", "o", "d", "e", "l", ":", " ", "m", "1">>

L_item_id_b == <<" ", " ", "-", " ", "i", "d", ":", " ", "b">>

L_model_m2 == <<" ", " ", " ", " ", "m", "o", "d", "e", "l", ":", " ", "m", "2">>

L_tags == <<"t", "a", "g", "s", ":">>

L_item_a == <<" ", " ", "-", " ", "a">>

L_item_2 == <<" ", " ", "-", " ", "2">>

L_root_item == <<"-", " ", "x">>

L_root_map_item == <<"-", " ", "k", ":", " ", "v">>

L_comment == <<"#", " ", "c">>

L_blank == <<>>

L_deep == <<" ", " ", " ", " ", " ", " ", "d", ":", " ", "1">>

L_quoted == <<"n", "a", "m", "e", ":", " ", "\"", "q", "\"">>

L_length_x == <<" ", " ", "l", "e", "n", "g", "t", "h", ":", " ", "x">>

\* the lines generated texts are made of
YamlLineSet ==
    {L_agents, L_item_id_a, L_model_m1, L_tags, L_item_a, L_item_2,
     L_root_item, L_root_map_item, L_comment, L_blank, L_deep, L_quoted,
     L_length_x}

\* a text: its lines, each ended by a line feed
TextOf(ls) == Concat([i \in 1..Len(ls) |-> ls[i] \o <<"\n">>])

\* "agents:\n  - id: a\n    model: m1\n  - id: b\n    model: m2\n"
AgentsYaml ==
    TextOf(<<L_agents, L_item_id_a, L_model_m1, L_item_id_b, L_model_m2>>)

YamlInputs ==
    {TextOf(ls) : ls \in UNION {[1..n -> YamlLineSet] : n \in 0..MaxYamlLines}}
        \cup {AgentsYaml}

----------------------------------------------------------------------------
(* parseYaml as a state machine: one step per line of the text.            *)

YamlIdle ==
    /\ yText = <<>>
    /\ yLines = <<>>
    /\ yI = 0
    /\ yHeap = <<NewObject>>
    /\ yStack = <<RootFrame>>
    /\ yPc = "idle"

PathIdle ==
    /\ pPath = <<>>
    /\ pNested = JNull
    /\ pFlat = JNull
    /\ pPc = "idle"

GraphIdle ==
    /\ gEvents = <<>>
    /\ gStartMeta = JUndef
    /\ gOut = JNull
    /\ gPc = "idle"

SessIdle ==
    /\ sFiles = <<>>
    /\ sOut = JNull
    /\ sPc = "idle"

AnsIdle ==
    /\ aData = JNull
    /\ aOut = JNull
    /\ aPc = "idle"

CoerceIdle ==
    /\ cToken = <<>>
    /\ cValue = JNull
    /\ cAgain = JNull
    /\ cPc = "idle"

FetchIdle ==
    /\ fGist = <<>>
    /\ fPromises = <<>>
    /\ fFiles = <<>>
    /\ fCore = JNull
    /\ fPc = "idle"

TurnIdle ==
    /\ tFiles = <<>>
    /\ tData = JNull
    /\ tCurrentTurn = JNull
    /\ tTryDisplay = <<>>
    /\ tShown = JNull
    /\ tWorkspaceShown = JNull
    /\ tPc = "idle"

YamlInit ==
    /\ PathIdle /\ GraphIdle /\ SessIdle /\ AnsIdle /\ CoerceIdle /\ FetchIdle /\ TurnIdle
    /\ yText \in YamlInputs
    /\ yLines = Split(yText, <<"\n">>)
    /\ yI = 0
    /\ yHeap = <<NewObject>>
    /\ yStack = <<RootFrame>>
    /\ yPc = "loop"

\* the body of the for loop for lines[i]; a RangeError of line 291 leaves
\* the function
parseYamlStep ==
    /\ yPc = "loop"
    /\ yI < Len(yLines)
    /\ LET r == parseYamlLine(yLines[yI + 1], yHeap, yStack)
       IN  /\ yHeap' = r.heap
           /\ yStack' = r.stack
           /\ yPc' = IF r.thrown THEN "thrown" ELSE "loop"
    /\ yI' = yI + 1
    /\ UNCHANGED <<yText, yLines, notYaml>>

\* return result
parseYamlReturn ==
    /\ yPc = "loop"
    /\ yI = Len(yLines)
    /\ yPc' = "done"
    /\ UNCHANGED <<yText, yLines, yI, yHeap, yStack, notYaml>>

YamlNext == parseYamlStep \/ parseYamlReturn

SpecYaml == YamlInit /\ [][YamlNext]_vars

----------------------------------------------------------------------------
(* String constants of the path conventions.                               *)

S_turn_ == <<"t", "u", "r", "n", "_">>

S_attempt_ == <<"a", "t", "t", "e", "m", "p", "t", "_">>

S_agent_ == <<"a", "g", "e", "n", "t", "_">>

S_final == <<"f", "i", "n", "a", "l">>

S_uu == <<"_", "_">>

S_slash == <<"/">>

S_agent_a == <<"a", "g", "e", "n", "t", "_", "a">>

S_agent_b == <<"a", "g", "e", "n", "t", "_", "b">>

S_gpt_x == <<"g", "p", "t", "_", "x">>

S_claude == <<"c", "l", "a", "u", "d", "e">>

S_ts_0000 == <<"2", "0", "2", "5", "0", "1", "0", "1", "_", "0", "0", "0", "0">>

S_ts_1200 == <<"2", "0", "2", "5", "0", "1", "0", "1", "_", "1", "2", "0", "0", "0", "0">>

S_answer_txt == <<"a", "n", "s", "w", "e", "r", ".", "t", "x", "t">>

S_vote_json == <<"v", "o", "t", "e", ".", "j", "s", "o", "n">>

S_status_json == <<"s", "t", "a", "t", "u", "s", ".", "j", "s", "o", "n">>

S_workspace == <<"w", "o", "r", "k", "s", "p", "a", "c", "e">>

S_f_txt == <<"f", ".", "t", "x", "t">>

----------------------------------------------------------------------------
(* extractTurnAttemptFromPath and extractAgentFromPath (src/app.js         *)
(* 172-181, 433-475).  JNull stands for null.                              *)

RECURSIVE SepRunEnd(_, _)
\* the 0-based position after the longest run of "__" and "/" units that
\* starts at position i: what (?:__|\/)+ consumes before a letter
SepRunEnd(s, i) ==
    IF MatchAt(s, S_uu, i) THEN SepRunEnd(s, i + 2)
    ELSE IF MatchAt(s, S_slash, i) THEN SepRunEnd(s, i + 1)
    ELSE i

\* path.match(/^turn_(\d+)(?:__|\/)+attempt_(\d+)(?:__|\/)/)
extractTurnAttemptFromPath(path) ==
    LET d1 == DigitRun(SliceFrom(path, 5))
        p1 == 5 + d1
        p2 == SepRunEnd(path, p1)
        d2 == DigitRun(SliceFrom(path, p2 + 8))
        p3 == p2 + 8 + d2
        matched ==
            /\ StartsWith(path, S_turn_)
            /\ d1 >= 1
            /\ p2 > p1
            /\ MatchAt(path, S_attempt_, p2)
            /\ d2 >= 1
            /\ MatchAt(path, S_uu, p3) \/ MatchAt(path, S_slash, p3)
        turn == DigitsToNat(Slice(path, 5, p1))
        attempt == DigitsToNat(Slice(path, p2 + 8, p3))
    IN  IF matched
        THEN [turn |-> turn, attempt |-> attempt,
              key |-> NatToStr(turn) \o <<"_">> \o NatToStr(attempt)]
        ELSE JNull

\* extractTurnFromPath (lines 189-192)
extractTurnFromPath(path) ==
    LET info == extractTurnAttemptFromPath(path)
    IN  IF info # JNull THEN JInt(info.turn) ELSE JNull

\* part.match(/^[a-z]+_[a-z]$/)
IsTwoTokenLower(part) ==
    /\ Len(part) >= 3
    /\ part[Len(part) - 1] = "_"
    /\ \A i \in 1..Len(part) : i # Len(part) - 1 => IsLower(part[i])

\* part.match(/^\d{8}_\d+/)
IsTimestampPart(part) ==
    /\ Len(part) >= 10
    /\ \A i \in 1..8 : IsDigit(part[i])
    /\ part[9] = "_"
    /\ IsDigit(part[10])

\* a part the flattened loop steps over (lines 445-447)
IsSkippedPart(part) ==
    \/ StartsWith(part, S_turn_)
    \/ StartsWith(part, S_attempt_)
    \/ part = S_final

\* a part the flattened loop takes as the agent id (line 449)
IsAgentPart(part) == StartsWith(part, S_agent_) \/ IsTwoTokenLower(part)

\* the flattened branch (lines 436-458)
extractAgentFlattened(path) ==
    LET parts == Split(path, S_uu)
        hits == {i \in 1..Len(parts) :
                    ~IsSkippedPart(parts[i]) /\ IsAgentPart(parts[i])}
        i == CHOOSE h \in hits : \A j \in hits : h <= j
    IN  IF hits = {} THEN [agentId |-> JNull, timestamp |-> JNull]
        ELSE [agentId |-> JStr(parts[i]),
              timestamp |-> IF i + 1 <= Len(parts) /\ IsTimestampPart(parts[i + 1])
                            THEN JStr(parts[i + 1]) ELSE JNull]

\* the number of leading turn_/attempt_ parts (lines 464-471)
LeadingTurnParts(parts) ==
    LET stops == {i \in 1..Len(parts) :
                     ~(StartsWith(parts[i], S_turn_) \/ StartsWith(parts[i], S_attempt_))}
    IN  IF stops = {} THEN Len(parts)
        ELSE (CHOOSE i \in stops : \A j \in stops : i <= j) - 1

\* parts[idx] || null for a 0-based idx
PartOrNull(parts, idx) ==
    IF idx + 1 <= Len(parts) /\ parts[idx + 1] # <<>>
    THEN JStr(parts[idx + 1]) ELSE JNull

\* the nested branch (lines 461-474)
extractAgentNested(path) ==
    LET parts == Split(path, S_slash)
        startIdx == LeadingTurnParts(parts)
    IN  [agentId |-> PartOrNull(parts, startIdx),
         timestamp |-> PartOrNull(parts, startIdx + 1)]

\* extractAgentFromPath with the flattened branch never taken: a "__" path
\* is split on "/" like a nested one
extractAgentFromPath_SplitSlashOnly(path) == extractAgentNested(path)

extractAgentFromPath(path) ==
    IF Includes(path, S_uu) /\ ~Includes(path, S_slash)
    THEN extractAgentFlattened(path)
    ELSE extractAgentNested(path)

\* the identity the aggregation derives from a path (lines 552-554)
classify(path) ==
    LET ta == extractTurnAttemptFromPath(path)
        ag == extractAgentFromPath(path)
    IN  [turn |-> IF ta # JNull THEN JInt(ta.turn) ELSE JNull,
         attempt |-> IF ta # JNull THEN JInt(ta.attempt) ELSE JNull,
         agentId |-> ag.agentId,
         timestamp |-> ag.timestamp]

\* the gist file name of a path: every "/" written as "__"
flattenPath(path) == ReplaceAll(path, S_slash, S_uu)

\* unflattenPath (lines 326-328)
unflattenPath(flatName) == ReplaceAll(flatName, S_uu, S_slash)

----------------------------------------------------------------------------
(* The paths the classifier is run on, and the classifier as a state       *)
(* machine.                                                                *)

RECURSIVE JoinPath(_)
\* the non-empty segments joined by "/"
JoinPath(segs) ==
    IF segs = <<>> THEN <<>>
    ELSE LET rest == JoinPath(Tail(segs))
         IN  IF Head(segs) = <<>> THEN rest
             ELSE IF rest = <<>> THEN Head(segs)
             ELSE Head(segs) \o S_slash \o rest

\* turn_<T>/attempt_<A>
TurnPrefix(t, a) ==
    S_turn_ \o NatToStr(t) \o S_slash \o S_attempt_ \o NatToStr(a)

TurnNumbers == (1..MaxTurn) \cup {12}

PathPrefixes ==
    {<<>>} \cup {TurnPrefix(t, a) : t \in TurnNumbers, a \in 1..MaxAttempt}

PathAgents == {<<>>, S_agent_a, S_agent_b, S_gpt_x, S_claude}

PathTimestamps == {<<>>, S_ts_0000, S_ts_1200}

PathFiles ==
    {S_answer_txt, S_vote_json, S_status_json, S_workspace \o S_slash \o S_f_txt}

PathInputs ==
    {JoinPath(<<pre, fin, ag, ts, f>>) :
        pre \in PathPrefixes, fin \in {<<>>, S_final}, ag \in PathAgents,
        ts \in PathTimestamps, f \in PathFiles}

PathInit ==
    /\ YamlIdle /\ GraphIdle /\ SessIdle /\ AnsIdle /\ CoerceIdle /\ FetchIdle /\ TurnIdle
    /\ pPath \in PathInputs
    /\ pNested = JNull
    /\ pFlat = JNull
    /\ pPc = "start"

\* classify the "/"-separated path
classifyNestedPath ==
    /\ pPc = "start"
    /\ pNested' = classify(pPath)
    /\ pPc' = "nested"
    /\ UNCHANGED <<pPath, pFlat, notPath>>

\* classify the same path with every "/" replaced by "__"
classifyFlattenedPath ==
    /\ pPc = "nested"
    /\ pFlat' = classify(flattenPath(pPath))
    /\ pPc' = "done"
    /\ UNCHANGED <<pPath, pNested, notPath>>

PathNext == classifyNestedPath \/ classifyFlattenedPath

SpecPath == PathInit /\ [][PathNext]_vars

----------------------------------------------------------------------------
(* renderTimeline: the coordination graph (src/app.js 1399-1536).  An      *)
(* event is [event_type, agent_id, timestamp, voted_for]; a field the      *)
(* event lacks is JUndef.  voted_for is context.voted_for; the events of   *)
(* the model carry no details text.                                        *)

S_unknown == <<"u", "n", "k", "n", "o", "w", "n">>

\* the truthiness of a value (the left operand of || and &&, an if test)
Truthy(v) ==
    /\ v.t \notin {"undefined", "null"}
    /\ v.t = "str" => v.s # <<>>
    /\ v.t = "num" => (v.ip # 0 \/ v.fp # <<>>)
    /\ v.t = "bool" => v.b

\* event.agent_id || 'unknown'
AgentOrUnknown(e) == IF Truthy(e.agent_id) THEN e.agent_id.s ELSE S_unknown

\* event.timestamp || 0
TimestampOrZero(e) == IF e.timestamp = JUndef THEN 0 ELSE e.timestamp.ip

RECURSIVE FilterSeq(_, _)
\* arr.filter(keep) for a set keep of positions
FilterSeq(arr, keep) ==
    IF arr = <<>> THEN <<>>
    ELSE LET n == Len(arr)
             front == FilterSeq(SubSeq(arr, 1, n - 1), keep)
         IN  IF n \in keep THEN Append(front, arr[n]) ELSE front

\* lines 1407-1411
graphEventsOf(events) ==
    FilterSeq(events, {i \in 1..Len(events) :
        events[i].event_type \in {"new_answer", "vote_cast", "final_answer"}})

\* the filter callback without the seenFinalAgents test: nothing is dropped
DedupFinal_KeepAll(events, seenFinalAgents) == events

RECURSIVE DedupFinal(_, _)
\* lines 1414-1422: the filter callback run over the events in list order
\* with the set seenFinalAgents
DedupFinal(events, seenFinalAgents) ==
    IF events = <<>> THEN <<>>
    ELSE LET ev == Head(events)
             key == AgentOrUnknown(ev)
         IN  IF ev.event_type = "final_answer"
             THEN IF key \in seenFinalAgents
                  THEN DedupFinal(Tail(events), seenFinalAgents)
                  ELSE <<ev>> \o DedupFinal(Tail(events), seenFinalAgents \cup {key})
             ELSE <<ev>> \o DedupFinal(Tail(events), seenFinalAgents)

dedupedEventsOf(events) == DedupFinal(graphEventsOf(events), {})

\* lines 1432-1436: Array.from(agentSet).sort()
agentsOf(deduped) ==
    LET agentSet == {deduped[i].agent_id.s :
                        i \in {j \in 1..Len(deduped) : Truthy(deduped[j].agent_id)}}
        rank(a) == Cardinality({b \in agentSet : StrLess(b, a)}) + 1
    IN  [k \in 1..Cardinality(agentSet) |-> CHOOSE a \in agentSet : rank(a) = k]

\* agentToCol[agentId]: the 0-based column, JUndef for an agent not listed
agentToCol(agents, agentId) ==
    IF \E k \in 1..Len(agents) : agents[k] = agentId
    THEN JInt((CHOOSE k \in 1..Len(agents) : agents[k] = agentId) - 1)
    ELSE JUndef

\* agentToNum filled with the 0-based index idx instead of idx + 1
agentToNum_ZeroBased(agents, agentId) ==
    IF \E k \in 1..Len(agents) : agents[k] = agentId
    THEN JInt((CHOOSE k \in 1..Len(agents) : agents[k] = agentId) - 1)
    ELSE JUndef

\* agentToNum[agentId]: the 1-based number, JUndef for an agent not listed
agentToNum(agents, agentId) ==
    IF \E k \in 1..Len(agents) : agents[k] = agentId
    THEN JInt(CHOOSE k \in 1..Len(agents) : agents[k] = agentId)
    ELSE JUndef

\* agentToNum[agentId] || 1
agentNumOrOne(agents, agentId) ==
    IF agentToNum(agents, agentId) = JUndef THEN 1
    ELSE agentToNum(agents, agentId).ip

\* agentToCol[agentId] ?? 0
agentColOrZero(agents, agentId) ==
    IF agentToCol(agents, agentId) = JUndef THEN 0
    ELSE agentToCol(agents, agentId).ip

\* the events left in list order: no sort
sortedEventsOf_Unsorted(deduped) == deduped

\* line 1447: the stable sort by (timestamp || 0)
sortedEventsOf(deduped) ==
    LET n == Len(deduped)
        before(i, j) ==
            \/ TimestampOrZero(deduped[i]) < TimestampOrZero(deduped[j])
            \/ /\ TimestampOrZero(deduped[i]) = TimestampOrZero(deduped[j])
               /\ i < j
        rank(i) == Cardinality({j \in 1..n : before(j, i)}) + 1
    IN  [k \in 1..n |-> deduped[CHOOSE i \in 1..n : rank(i) = k]]

\* `${x}.${y}`
DotLabel(x, y) == x \o <<".">> \o y

\* answerLabelToRowCol[key] = value on an object whose keys are kept in
\* insertion order
DictPut(dict, key, value) ==
    IF \E k \in 1..Len(dict) : dict[k].key = key
    THEN [k \in 1..Len(dict) |->
             IF dict[k].key = key THEN [key |-> key, value |-> value] ELSE dict[k]]
    ELSE Append(dict, [key |-> key, value |-> value])

RECURSIVE FirstPass(_, _, _, _, _)
\* lines 1454-1472 from row rowIdx (0-based) on: answerLabelToRowCol after
\* the forEach, given the registry and the counters answerCountByAgent so far
FirstPass(sorted, agents, rowIdx, registry, counts) ==
    IF rowIdx >= Len(sorted) THEN registry
    ELSE LET event == sorted[rowIdx + 1]
             agentId == AgentOrUnknown(event)
             count == (IF agentId \in DOMAIN counts THEN counts[agentId] ELSE 0) + 1
             counts1 == [a \in (DOMAIN counts) \cup {agentId} |->
                            IF a = agentId THEN count ELSE counts[a]]
             displayLabel == DotLabel(NatToStr(agentNumOrOne(agents, agentId)),
                                      NatToStr(count))
             info == [row |-> rowIdx,
                      col |-> agentColOrZero(agents, agentId),
                      agentId |-> agentId,
                      displayLabel |-> displayLabel,
                      internalLabel |-> DotLabel(agentId, NatToStr(count))]
         IN  IF event.event_type = "new_answer"
             THEN FirstPass(sorted, agents, rowIdx + 1,
                            DictPut(registry, displayLabel, info), counts1)
             ELSE FirstPass(sorted, agents, rowIdx + 1, registry, counts)

answerLabelToRowCol(sorted, agents) ==
    FirstPass(sorted, agents, 0, <<>>, [a \in {} |-> 0])

\* the keys of the registry entries at the positions keep, in key order
LabelsWhere(registry, keep) ==
    LET kept == FilterSeq(registry, keep)
    IN  [k \in 1..Len(kept) |-> kept[k].key]

\* the labels registered at a row before rowIdx (lines 1495-1499, 1516-1520)
LabelsBefore(registry, rowIdx) ==
    LabelsWhere(registry, {k \in 1..Len(registry) : registry[k].value.row < rowIdx})

\* n.toFixed(1) of an integer
ToFixed1(n) ==
    (IF n < 0 THEN <<"-">> \o NatToStr(-n) ELSE NatToStr(n)) \o <<".", "0">>

\* lines 1502-1513: the label of the voted-for agent, JNull when unresolved
votedForLabelOf(event, registry, agents, rowIdx) ==
    LET votedForAgentId == IF Truthy(event.voted_for) THEN event.voted_for ELSE JNull
        votedAgentNum == IF votedForAgentId = JNull THEN JUndef
                         ELSE agentToNum(agents, votedForAgentId.s)
        votedAgentAnswerCount ==
            Cardinality({k \in 1..Len(registry) :
                /\ registry[k].value.agentId = votedForAgentId.s
                /\ registry[k].value.row < rowIdx})
    IN  IF votedForAgentId # JNull /\ votedAgentNum # JUndef
        THEN JStr(DotLabel(NatToStr(votedAgentNum.ip), NatToStr(votedAgentAnswerCount)))
        ELSE JNull

\* lines 1475-1536: the row of the event at rowIdx (0-based)
rowOf(sorted, agents, registry, startTime, rowIdx) ==
    LET event == sorted[rowIdx + 1]
        agentId == AgentOrUnknown(event)
        agentNum == agentNumOrOne(agents, agentId)
        agentAnswerNum ==
            Cardinality({k \in 1..Len(registry) :
                /\ registry[k].value.agentId = agentId
                /\ registry[k].value.row <= rowIdx})
        isAnswer == event.event_type = "new_answer"
        isVote == event.event_type = "vote_cast"
    IN  [event |-> event,
         agentId |-> agentId,
         col |-> agentColOrZero(agents, agentId),
         relTime |-> ToFixed1(TimestampOrZero(event) - startTime),
         label |-> IF isAnswer
                   THEN DotLabel(NatToStr(agentNum), NatToStr(agentAnswerNum))
                   ELSE IF event.event_type = "final_answer" THEN S_final
                   ELSE <<>>,
         contextAnswers |-> IF isAnswer THEN LabelsBefore(registry, rowIdx) ELSE <<>>,
         votedForLabel |-> IF isVote
                           THEN votedForLabelOf(event, registry, agents, rowIdx)
                           ELSE JNull,
         availableOptions |-> IF isVote THEN LabelsBefore(registry, rowIdx) ELSE <<>>,
         type |-> event.event_type]

\* line 1429: session_metadata?.start_time || events[0]?.timestamp || 0
startTimeOf(startMeta, events) ==
    IF startMeta # JUndef /\ startMeta.ip # 0 THEN startMeta.ip
    ELSE IF events # <<>> THEN TimestampOrZero(events[1])
    ELSE 0

\* renderTimeline up to the rows: rendered is FALSE when the function
\* returns at line 1426 with "No coordination events available"
renderTimelineRows(events, startMeta) ==
    LET deduped == dedupedEventsOf(events)
        agents == agentsOf(deduped)
        sorted == sortedEventsOf(deduped)
        registry == answerLabelToRowCol(sorted, agents)
        startTime == startTimeOf(startMeta, events)
    IN  IF deduped = <<>>
        THEN [rendered |-> FALSE, deduped |-> deduped, agents |-> <<>>,
              sorted |-> <<>>, registry |-> <<>>, rows |-> <<>>]
        ELSE [rendered |-> TRUE, deduped |-> deduped, agents |-> agents,
              sorted |-> sorted, registry |-> registry,
              rows |-> [r \in 1..Len(sorted) |->
                           rowOf(sorted, agents, registry, startTime, r - 1)]]

----------------------------------------------------------------------------
(* The event lists renderTimeline is run on, and the call as one action.   *)

Event(type, agent, ts, votedFor) ==
    [event_type |-> type, agent_id |-> agent, timestamp |-> ts,
     voted_for |-> votedFor]

S_agent_c == <<"a", "g", "e", "n", "t", "_", "c">>

NewAnswerEvents ==
    {Event("new_answer", JStr(S_agent_a), JInt(t), JUndef) : t \in 0..2}
        \cup {Event("new_answer", JStr(S_agent_b), JInt(1), JUndef),
              Event("new_answer", JStr(S_agent_b), JUndef, JUndef),
              Event("new_answer", JUndef, JInt(1), JUndef)}

FinalAnswerEvents ==
    {Event("final_answer", JStr(S_agent_a), JInt(t), JUndef) : t \in 1..2}
        \cup {Event("final_answer", JStr(S_agent_b), JInt(2), JUndef)}

VoteCastEvents ==
    {Event("vote_cast", JStr(S_agent_a), JInt(2), JStr(S_agent_b)),
     Event("vote_cast", JStr(S_agent_a), JInt(1), JStr(S_agent_b)),
     Event("vote_cast", JStr(S_agent_a), JInt(2), JStr(S_agent_c)),
     Event("vote_cast", JStr(S_agent_b), JInt(2), JStr(S_agent_b)),
     Event("vote_cast", JStr(S_agent_b), JInt(2), JStr(S_agent_a)),
     Event("vote_cast", JStr(S_agent_a), JInt(2), JUndef)}

OtherEvents == {Event("status_change", JStr(S_agent_a), JInt(0), JUndef)}

EventSet == NewAnswerEvents \cup FinalAnswerEvents \cup VoteCastEvents \cup OtherEvents

GraphInit ==
    /\ YamlIdle /\ PathIdle /\ SessIdle /\ AnsIdle /\ CoerceIdle /\ FetchIdle /\ TurnIdle
    /\ gEvents \in UNION {[1..n -> EventSet] : n \in 0..MaxEvents}
    /\ gStartMeta \in {JInt(0), JInt(1)}
    /\ gOut = JNull
    /\ gPc = "start"

renderTimeline ==
    /\ gPc = "start"
    /\ gOut' = renderTimelineRows(gEvents, gStartMeta)
    /\ gPc' = "done"
    /\ UNCHANGED <<gEvents, gStartMeta, notGraph>>

GraphNext == renderTimeline

SpecGraph == GraphInit /\ [][GraphNext]_vars

----------------------------------------------------------------------------
(* Claims about parseYaml.                                                 *)

K_agents == <<"a", "g", "e", "n", "t", "s">>

K_id == <<"i", "d">>

K_model == <<"m", "o", "d", "e", "l">>

\* {agents: [{id: "a", model: "m1"}, {id: "b", model: "m2"}]}
AgentsYamlExpected ==
    [obj |-> (K_agents :>
        [items |-> <<[obj |-> (K_id :> JStr(<<"a">>)
                                @@ K_model :> JStr(<<"m", "1">>))],
                     [obj |-> (K_id :> JStr(<<"b">>)
                                @@ K_model :> JStr(<<"m", "2">>))]>>,
         props |-> [k \in {} |-> JNull]])]

\* C1: parseYaml attaches the keys that follow a "- key: value" item,
\* indented two columns past the dash, to that item's mapping: the text
\* "agents:\n  - id: a\n    model: m1\n  - id: b\n    model: m2\n" parses to
\* {agents: [{id:"a", model:"m1"}, {id:"b", model:"m2"}]}.
C1_ItemKeysAttachToItem ==
    (yPc = "done" /\ yText = AgentsYaml) => parseYamlResult = AgentsYamlExpected

----------------------------------------------------------------------------
(* Claims about the path classifier.                                       *)

\* C3: classifying a "/"-separated path and classifying it with every "/"
\* replaced by "__" yield the same agentId, the same turn and the same
\* attempt.
C3_FlattenRoundTrip ==
    pPc = "done" =>
        /\ pNested.agentId = pFlat.agentId
        /\ pNested.turn = pFlat.turn
        /\ pNested.attempt = pFlat.attempt

\* turn_2/attempt_1/agent_b/20250101_0000/answer.txt
ExamplePath ==
    JoinPath(<<TurnPrefix(2, 1), S_agent_b, S_ts_0000, S_answer_txt>>)

ExampleIdentity ==
    [turn |-> JInt(2), attempt |-> JInt(1), agentId |-> JStr(S_agent_b),
     timestamp |-> JStr(S_ts_0000)]

\* C4: classifying "turn_2/attempt_1/agent_b/20250101_0000/answer.txt"
\* yields turn 2, attempt 1, agentId "agent_b", timestamp "20250101_0000",
\* and the flattened form
\* "turn_2__attempt_1__agent_b__20250101_0000__answer.txt" yields the
\* identical identity.
C4_ClassifyExample ==
    (pPc = "done" /\ pPath = ExamplePath) =>
        /\ pNested = ExampleIdentity
        /\ pFlat = ExampleIdentity

\* the example path has been classified in both forms
C4_Witness ==
    /\ pPc = "done"
    /\ pPath = ExamplePath
    /\ flattenPath(pPath) = S_turn_ \o <<"2">> \o S_uu \o S_attempt_ \o <<"1">>
          \o S_uu \o S_agent_b \o S_uu \o S_ts_0000 \o S_uu \o S_answer_txt

----------------------------------------------------------------------------
(* Claims about the coordination graph.                                    *)

ScenarioEvents ==
    <<Event("new_answer", JStr(S_agent_a), JInt(0), JUndef),
      Event("new_answer", JStr(S_agent_b), JInt(1), JUndef),
      Event("vote_cast", JStr(S_agent_a), JInt(2), JStr(S_agent_b))>>

ScenarioRendered ==
    gPc = "done" /\ gEvents = ScenarioEvents /\ gStartMeta = JInt(0)

\* C2: the events [new_answer by agent_a at 0, new_answer by agent_b at 1,
\* vote_cast by agent_a at 2 voting for agent_b] with start time 0 yield
\* exactly three rows in that order: label "1.1" at relative time 0, label
\* "2.1" at relative time 1, and a vote row with votedForLabel "2.1" and
\* availableOptionLabels ["1.1", "2.1"] at relative time 2.
C2_ScenarioRows ==
    ScenarioRendered =>
        /\ gOut.rendered
        /\ Len(gOut.rows) = 3
        /\ gOut.rows[1].type = "new_answer"
        /\ gOut.rows[1].label = <<"1", ".", "1">>
        /\ gOut.rows[1].relTime = <<"0", ".", "0">>
        /\ gOut.rows[2].type = "new_answer"
        /\ gOut.rows[2].label = <<"2", ".", "1">>
        /\ gOut.rows[2].relTime = <<"1", ".", "0">>
        /\ gOut.rows[3].type = "vote_cast"
        /\ gOut.rows[3].votedForLabel = JStr(<<"2", ".", "1">>)
        /\ gOut.rows[3].availableOptions = <<<<"1", ".", "1">>, <<"2", ".", "1">>>>
        /\ gOut.rows[3].relTime = <<"2", ".", "0">>

\* the scenario has been rendered
C2_Witness == ScenarioRendered /\ gOut.rendered

\* the rows (1-based) of the new_answer events of an agent, in the sorted list
AnswerRowsOf(agentId) ==
    {r \in 1..Len(gOut.sorted) :
        /\ gOut.sorted[r].event_type = "new_answer"
        /\ AgentOrUnknown(gOut.sorted[r]) = agentId}

\* C7: for every agent A with agent number n whose new_answer events occupy
\* rows r1 < r2 < ... < rk of the sorted event list, the label of the row at
\* ri is "n.i".
C7_LabelsIncreasePerAgent ==
    (gPc = "done" /\ gOut.rendered) =>
        \A n \in 1..Len(gOut.agents) :
            \A r \in AnswerRowsOf(gOut.agents[n]) :
                gOut.rows[r].label =
                    DotLabel(NatToStr(n),
                             NatToStr(Cardinality({q \in AnswerRowsOf(gOut.agents[n]) :
                                                      q <= r})))

\* the number of events of a type for an agent id in a list
CountEvents(events, type, agentId) ==
    Cardinality({i \in 1..Len(events) :
        events[i].event_type = type /\ AgentOrUnknown(events[i]) = agentId})

\* the number of rows of a type for an agent id
CountRows(type, agentId) ==
    Cardinality({r \in 1..Len(gOut.rows) :
        gOut.rows[r].type = type /\ gOut.rows[r].agentId = agentId})

EventAgentIds == {AgentOrUnknown(gEvents[i]) : i \in 1..Len(gEvents)}

\* C8: the output rows contain at most one final_answer row per agentId, and
\* exactly one when the input has at least one final_answer event for it;
\* new_answer and vote_cast events are never removed by de-duplication.
C8_FinalAnswerDedup ==
    gPc = "done" =>
        \A a \in EventAgentIds :
            /\ CountRows("final_answer", a) <= 1
            /\ CountEvents(gEvents, "final_answer", a) >= 1
                   => CountRows("final_answer", a) = 1
            /\ CountRows("new_answer", a) = CountEvents(gEvents, "new_answer", a)
            /\ CountRows("vote_cast", a) = CountEvents(gEvents, "vote_cast", a)

\* two final_answer events of one agent went in and one row came out
C8_Witness ==
    /\ gPc = "done"
    /\ \E a \in EventAgentIds :
          /\ CountEvents(gEvents, "final_answer", a) >= 2
          /\ CountRows("final_answer", a) = 1
          /\ CountRows("new_answer", a) >= 1

\* C9: a vote whose voted-for agent has no answer before the vote row
\* (whether that agent appears elsewhere in the event list, for example only
\* as a voter, or not at all) gets a null/empty votedForLabel.
C9_VoteForAgentWithoutAnswer ==
    (gPc = "done" /\ gOut.rendered) =>
        \A r \in 1..Len(gOut.rows) :
            (/\ gOut.rows[r].type = "vote_cast"
             /\ Truthy(gOut.sorted[r].voted_for)
             /\ \A q \in 1..(r - 1) :
                    ~(/\ gOut.sorted[q].event_type = "new_answer"
                      /\ AgentOrUnknown(gOut.sorted[q]) = gOut.sorted[r].voted_for.s))
                => gOut.rows[r].votedForLabel \in {JNull, JStr(<<>>)}

----------------------------------------------------------------------------
(* extractSessionData (src/app.js 480-762) with parseSessionManifest,      *)
(* detectLegacyGist, getSessionStatus, getErrorInfo and                    *)
(* getTurnsFromManifest (53-131).  files is the file map in key order, a   *)
(* sequence of [path, content]; a content is what processFileContent       *)
(* returned: a string, or a parsed JSON value.  An object is the sequence  *)
(* of its [k, v] entries in insertion order.  The result is the session    *)
(* model, or the TypeError a property read of null raises.  The file maps  *)
(* of the model hold no agent output and no execution metadata, so         *)
(* agentOutputs and executionMetadata (lines 607-640) stay empty and are    *)
(* left out of the result.                                                 *)

S_metrics_summary_json == <<"m", "e", "t", "r", "i", "c", "s", "_", "s", "u", "m", "m", "a", "r", "y", ".", "j", "s", "o", "n">>

S_coordination_events_json == <<"c", "o", "o", "r", "d", "i", "n", "a", "t", "i", "o", "n", "_", "e", "v", "e", "n", "t", "s", ".", "j", "s", "o", "n">>

S_snapshot_mappings_json == <<"s", "n", "a", "p", "s", "h", "o", "t", "_", "m", "a", "p", "p", "i", "n", "g", "s", ".", "j", "s", "o", "n">>

S_session_manifest_json == <<"_", "s", "e", "s", "s", "i", "o", "n", "_", "m", "a", "n", "i", "f", "e", "s", "t", ".", "j", "s", "o", "n">>

S_final_slash == <<"f", "i", "n", "a", "l", "/">>

S_uu_final_uu == <<"_", "_", "f", "i", "n", "a", "l", "_", "_">>

S_error == <<"e", "r", "r", "o", "r">>

S_timeout == <<"t", "i", "m", "e", "o", "u", "t">>

S_complete == <<"c", "o", "m", "p", "l", "e", "t", "e">>

S_Unknown == <<"U", "n", "k", "n", "o", "w", "n">>

S_Unknown_error == <<"U", "n", "k", "n", "o", "w", "n", " ", "e", "r", "r", "o", "r">>

KV(k, v) == [k |-> k, v |-> v]

JObj(props) == [t |-> "obj", props |-> props]

JArr(items) == [t |-> "arr", items |-> items]

\* {}
EmptyObject == JObj(<<>>)

\* typeof v === 'object'
TypeofObject(v) == v.t \in {"obj", "arr", "null"}

\* typeof v === 'string'
TypeofString(v) == v.t = "str"

\* v.f for a v that is neither null nor undefined
Get(v, f) ==
    IF v.t = "obj" /\ \E i \in 1..Len(v.props) : v.props[i].k = f
    THEN v.props[CHOOSE i \in 1..Len(v.props) : v.props[i].k = f].v
    ELSE JUndef

\* v?.f
GetOpt(v, f) == IF v.t \in {"null", "undefined"} THEN JUndef ELSE Get(v, f)

\* a || b
Or(a, b) == IF Truthy(a) THEN a ELSE b

\* const v = x followed by the code F that reads v: x is computed once
Bind(x, F(_)) == CHOOSE r \in {F(v) : v \in {x}} : TRUE

\* v > 0
GreaterThanZero(v) ==
    \/ v.t = "num" /\ ~v.neg /\ (v.ip > 0 \/ v.fp # <<>>)
    \/ v.t = "bool" /\ v.b

\* the exception thrown by a property read of null at the given line
TypeError(line) == [t |-> "TypeError", line |-> line]

\* an object used as a dictionary, without its entries
NoEntries == [k \in {} |-> JNull]

\* dict[key] = value
Put(dict, key, value) ==
    [k \in (DOMAIN dict) \cup {key} |-> IF k = key THEN value ELSE dict[k]]

\* files[path]
FileAt(files, path) ==
    IF \E i \in 1..Len(files) : files[i].path = path
    THEN files[CHOOSE i \in 1..Len(files) : files[i].path = path].content
    ELSE JUndef

\* parseSessionManifest (lines 53-59)
parseSessionManifest(files) ==
    LET m == FileAt(files, S_session_manifest_json)
    IN  IF Truthy(m) /\ TypeofObject(m) THEN m ELSE JNull

\* detectLegacyGist (lines 65-78)
detectLegacyGist(files) ==
    /\ ~Truthy(FileAt(files, S_session_manifest_json))
    /\ \A i \in 1..Len(files) : ~StartsWith(files[i].path, S_turn_)

RECURSIVE statusFromFiles(_, _)
\* the for loop of getSessionStatus from entry i on (lines 88-95)
statusFromFiles(files, i) ==
    IF i > Len(files) THEN JStr(S_complete)
    ELSE LET path == files[i].path
             content == files[i].content
         IN  IF EndsWith(path, S_status_json) /\ TypeofObject(content)
             THEN IF content = JNull THEN TypeError(90)
                  ELSE LET rounds == Or(GetOpt(Get(content, "rounds"), "by_outcome"),
                                        EmptyObject)
                       IN  IF GreaterThanZero(Get(rounds, "error"))
                           THEN JStr(S_error)
                           ELSE IF GreaterThanZero(Get(rounds, "timeout"))
                           THEN JStr(S_timeout)
                           ELSE statusFromFiles(files, i + 1)
             ELSE statusFromFiles(files, i + 1)

\* getSessionStatus (lines 83-96)
getSessionStatus(manifest, files) ==
    IF Truthy(manifest) /\ Truthy(Get(manifest, "status"))
    THEN Get(manifest, "status")
    ELSE statusFromFiles(files, 1)

RECURSIVE errorFromAgents(_, _)
\* the inner loop of getErrorInfo over Object.entries(agents) from entry j
\* on (lines 109-117); JUndef when no agent carries an error
errorFromAgents(entries, j) ==
    IF j > Len(entries) THEN JUndef
    ELSE LET agentData == entries[j].v
         IN  IF agentData.t \in {"null", "undefined"} THEN TypeError(110)
             ELSE IF Truthy(Get(agentData, "error"))
             THEN JObj(<<KV("type", Or(Get(Get(agentData, "error"), "type"),
                                      JStr(S_unknown))),
                         KV("message", Or(Get(Get(agentData, "error"), "message"),
                                         JStr(S_Unknown_error))),
                         KV("agent_id", JStr(entries[j].k))>>)
             ELSE errorFromAgents(entries, j + 1)

RECURSIVE errorFromFiles(_, _)
\* the outer loop of getErrorInfo from entry i on (lines 106-120)
errorFromFiles(files, i) ==
    IF i > Len(files) THEN JNull
    ELSE LET path == files[i].path
             content == files[i].content
         IN  IF EndsWith(path, S_status_json) /\ TypeofObject(content)
             THEN IF content = JNull THEN TypeError(108)
                  ELSE LET agents == Or(Get(content, "agents"), EmptyObject)
                           found == errorFromAgents(
                                        IF agents.t = "obj" THEN agents.props ELSE <<>>, 1)
                       IN  IF found # JUndef THEN found
                           ELSE errorFromFiles(files, i + 1)
             ELSE errorFromFiles(files, i + 1)

\* getErrorInfo (lines 101-121)
getErrorInfo(manifest, files) ==
    IF Truthy(manifest) /\ Truthy(Get(manifest, "error"))
    THEN Get(manifest, "error")
    ELSE errorFromFiles(files, 1)

\* getTurnsFromManifest (lines 126-131)
getTurnsFromManifest(manifest) ==
    IF Truthy(manifest) /\ Get(manifest, "turns").t = "arr"
    THEN Get(manifest, "turns") ELSE JArr(<<>>)

\* the per-turn storage a first file of a turn key creates (lines 498-507)
NewTurnBucket(turnAttempt) ==
    [metrics |-> EmptyObject, status |-> EmptyObject,
     coordination |-> EmptyObject, snapshotMappings |-> EmptyObject,
     answers |-> NoEntries, votes |-> NoEntries,
     turnNumber |-> turnAttempt.turn, attemptNumber |-> turnAttempt.attempt]

\* the if statement writing the document into the turn's bucket and into
\* the global bucket only while that is still {}: the first write wins
RouteInto_FirstWriteWins(acc, field, suffix, file, turnAttempt) ==
    IF EndsWith(file.path, suffix) /\ TypeofObject(file.content)
    THEN [acc EXCEPT
             ![field] = IF @ = EmptyObject THEN file.content ELSE @,
             !.perTurnData =
                 IF turnAttempt # JNull
                 THEN [@ EXCEPT ![turnAttempt.key][field] = file.content]
                 ELSE @]
    ELSE acc

\* one of the four if statements of lines 510-525
RouteInto(acc, field, suffix, file, turnAttempt) ==
    IF EndsWith(file.path, suffix) /\ TypeofObject(file.content)
    THEN [acc EXCEPT
             ![field] = file.content,
             !.perTurnData =
                 IF turnAttempt # JNull
                 THEN [@ EXCEPT ![turnAttempt.key][field] = file.content]
                 ELSE @]
    ELSE acc

\* the body of the first loop for one file, given its turnAttempt
\* (lines 496-525)
RouteFileOf(acc, file, turnAttempt) ==
    LET a0 == IF turnAttempt # JNull /\ turnAttempt.key \notin DOMAIN acc.perTurnData
              THEN [acc EXCEPT !.perTurnData =
                       Put(@, turnAttempt.key, NewTurnBucket(turnAttempt))]
              ELSE acc
        a1 == RouteInto(a0, "metrics", S_metrics_summary_json, file, turnAttempt)
        a2 == RouteInto(a1, "status", S_status_json, file, turnAttempt)
        a3 == RouteInto(a2, "coordination", S_coordination_events_json, file, turnAttempt)
    IN  RouteInto(a3, "snapshotMappings", S_snapshot_mappings_json, file, turnAttempt)

\* the body of the first loop for one file (lines 493-525)
RouteFile(acc, file) ==
    Bind(extractTurnAttemptFromPath(file.path),
         LAMBDA turnAttempt : RouteFileOf(acc, file, turnAttempt))

RECURSIVE RouteFiles(_, _)
\* the state of the first loop after the first n files (lines 483-526)
RouteFiles(files, n) ==
    IF n = 0
    THEN [metrics |-> EmptyObject, status |-> EmptyObject,
          coordination |-> EmptyObject, snapshotMappings |-> EmptyObject,
          perTurnData |-> NoEntries]
    ELSE Bind(RouteFiles(files, n - 1), LAMBDA acc : RouteFile(acc, files[n]))

\* the test of line 551
IsAnswerFile(file) ==
    /\ \/ EndsWith(file.path, S_uu \o S_answer_txt)
       \/ Includes(file.path, S_slash \o S_answer_txt)
    /\ TypeofString(file.content)

\* turnAttempt?.turn || null, turnAttempt?.attempt || null
NumberOrNull(turnAttempt, n) ==
    IF turnAttempt # JNull /\ n # 0 THEN JInt(n) ELSE JNull

\* the answerData of lines 556-566
AnswerDataOf(file, turnAttempt, id) ==
        [label |-> DotLabel(id.agentId.s, id.timestamp.s),
         agent_id |-> id.agentId,
         timestamp |-> id.timestamp,
         content |-> file.content,
         turn |-> IF turnAttempt # JNull
                  THEN NumberOrNull(turnAttempt, turnAttempt.turn) ELSE JNull,
         attempt |-> IF turnAttempt # JNull
                     THEN NumberOrNull(turnAttempt, turnAttempt.attempt) ELSE JNull,
         turnKey |-> IF turnAttempt # JNull THEN JStr(turnAttempt.key) ELSE JNull,
         type |-> IF Includes(file.path, S_final_slash) \/ Includes(file.path, S_uu_final_uu)
                  THEN "final_answer" ELSE "answer"]

\* the body of the answers loop for one file, given its turnAttempt and
\* its {agentId, timestamp} (lines 555-572)
AnswerFileOf(acc, file, turnAttempt, id) ==
        IF IsAnswerFile(file) /\ Truthy(id.agentId) /\ Truthy(id.timestamp)
        THEN LET answerData == AnswerDataOf(file, turnAttempt, id)
             IN  [answers |-> Put(acc.answers, answerData.label, answerData),
                  perTurnData |->
                      IF turnAttempt # JNull /\ turnAttempt.key \in DOMAIN acc.perTurnData
                      THEN [acc.perTurnData EXCEPT ![turnAttempt.key].answers =
                               Put(@, answerData.label, answerData)]
                      ELSE acc.perTurnData]
        ELSE acc

\* the body of the answers loop for one file (lines 551-573)
AnswerFile(acc, file) ==
    IF IsAnswerFile(file)
    THEN Bind(extractTurnAttemptFromPath(file.path), LAMBDA turnAttempt :
             Bind(extractAgentFromPath(file.path), LAMBDA id :
                 AnswerFileOf(acc, file, turnAttempt, id)))
    ELSE acc

RECURSIVE AnswerFiles(_, _, _)
\* answers and perTurnData after the first n files of the answers loop
\* (lines 548-574)
AnswerFiles(files, n, perTurnData) ==
    IF n = 0 THEN [answers |-> NoEntries, perTurnData |-> perTurnData]
    ELSE Bind(AnswerFiles(files, n - 1, perTurnData),
              LAMBDA acc : AnswerFile(acc, files[n]))

\* the test of line 579
IsVoteFile(file) ==
    /\ \/ EndsWith(file.path, S_slash \o S_vote_json)
       \/ EndsWith(file.path, S_uu \o S_vote_json)
    /\ TypeofObject(file.content)

\* the vote pushed at lines 586-598, for a content that is not null
VoteOf(file, turnNum, id) ==
    LET content == file.content
    IN  [agent_id |-> id.agentId,
         voter_id |-> Or(Get(content, "voter_id"), id.agentId),
         voted_for |-> Get(content, "voted_for"),
         voted_for_label |-> Get(content, "voted_for_label"),
         voted_for_anon |-> Get(content, "voted_for_anon"),
         reason |-> Get(content, "reason"),
         timestamp |-> Or(id.timestamp, JStr(<<>>)),
         coordination_round |-> Get(content, "coordination_round"),
         available_options |-> Or(Get(content, "available_options"), JArr(<<>>)),
         agent_mapping |-> Or(Get(content, "agent_mapping"), EmptyObject),
         turn |-> turnNum]

\* the body of the votes loop for one vote file, given its turn and its
\* {agentId, timestamp} (lines 582-599); acc holds the dictionary so far
\* and whether line 588 has thrown
VoteFileOf(acc, file, turnNum, id) ==
    LET votes == acc.votes
    IN  IF Truthy(id.agentId)
        THEN IF file.content = JNull THEN [acc EXCEPT !.thrown = TRUE]
             ELSE [acc EXCEPT !.votes =
                      Put(votes, id.agentId.s,
                          Append(IF id.agentId.s \in DOMAIN votes
                                 THEN votes[id.agentId.s] ELSE <<>>,
                                 VoteOf(file, turnNum, id)))]
        ELSE acc

\* the body of the votes loop for one file (lines 579-600)
VoteFile(acc, file) ==
    IF ~acc.thrown /\ IsVoteFile(file)
    THEN Bind(extractTurnFromPath(file.path), LAMBDA turnNum :
             Bind(extractAgentFromPath(file.path), LAMBDA id :
                 VoteFileOf(acc, file, turnNum, id)))
    ELSE acc

RECURSIVE VoteFiles(_, _)
\* votes after the first n files of the votes loop (lines 577-601)
VoteFiles(files, n) ==
    IF n = 0 THEN [thrown |-> FALSE, votes |-> NoEntries]
    ELSE Bind(VoteFiles(files, n - 1), LAMBDA acc : VoteFile(acc, files[n]))

\* a.coordination_round || 0, for the rounds of the model
RoundOrZero(vote) ==
    IF Truthy(vote.coordination_round) THEN vote.coordination_round.ip ELSE 0

\* the votes loop without the sort of line 604
sortVotes_EncounterOrder(list) == list

\* votes[agentId].sort((a, b) => (a.coordination_round || 0) -
\* (b.coordination_round || 0)): a stable sort (line 604)
sortVotes(list) ==
    LET n == Len(list)
        before(i, j) ==
            \/ RoundOrZero(list[i]) < RoundOrZero(list[j])
            \/ RoundOrZero(list[i]) = RoundOrZero(list[j]) /\ i < j
        rank(i) == Cardinality({j \in 1..n : before(j, i)}) + 1
    IN  [k \in 1..n |-> list[CHOOSE i \in 1..n : rank(i) = k]]

\* (coordination.events || []).forEach(e => e.agent_id && ...) throws on
\* events that are no array and on a null event (line 708)
EventsThrow(coordination) ==
    LET events == Or(Get(coordination, "events"), JArr(<<>>))
    IN  \/ events.t # "arr"
        \/ \E i \in 1..Len(events.items) : events.items[i].t \in {"null", "undefined"}

S_slash_workspace_slash == <<"/", "w", "o", "r", "k", "s", "p", "a", "c", "e", "/">>

S_uu_workspace_uu == <<"_", "_", "w", "o", "r", "k", "s", "p", "a", "c", "e", "_", "_">>

S_slash_final_slash == <<"/", "f", "i", "n", "a", "l", "/">>

S_default == <<"d", "e", "f", "a", "u", "l", "t">>

\* the test of line 656
IsWorkspaceFile(file) ==
    /\ \/ Includes(file.path, S_slash_workspace_slash)
       \/ Includes(file.path, S_uu_workspace_uu)
    /\ TypeofString(file.content)

\* relativePath (lines 657-667)
relativePathOf(path) ==
    IF Includes(path, S_slash_workspace_slash)
    THEN SliceFrom(path, IndexOf(path, S_slash_workspace_slash) + 11)
    ELSE ReplaceAll(SliceFrom(path, IndexOf(path, S_uu_workspace_uu) + 13),
                    S_uu, S_slash)

\* tsKey (lines 680-681)
tsKeyOf(path, id) ==
    IF Truthy(id.timestamp) THEN id.timestamp.s
    ELSE IF Includes(path, S_slash_final_slash) \/ Includes(path, S_uu_final_uu)
    THEN S_final
    ELSE S_default

\* the body of the workspace loop for one workspace file, given its
\* {agentId, timestamp} and its turn (lines 669-700).  The dictionary
\* {agentId: {tsKey: {relativePath: content}}} is the function from
\* <<agentId, tsKey, relativePath>> to the content; turnWorkspaceFiles has
\* such a dictionary under the property key of the turn number
WorkspaceFileOf(acc, file, id, turnNum) ==
    LET relativePath == relativePathOf(file.path)
        key == <<id.agentId.s, tsKeyOf(file.path, id), relativePath>>
        turnKey == NatToStr(turnNum.ip)
    IN  IF Truthy(id.agentId) /\ relativePath # <<>>
        THEN [workspaceFiles |-> Put(acc.workspaceFiles, key, file.content),
              turnWorkspaceFiles |->
                  IF turnNum # JNull
                  THEN Put(acc.turnWorkspaceFiles, turnKey,
                           Put(IF turnKey \in DOMAIN acc.turnWorkspaceFiles
                               THEN acc.turnWorkspaceFiles[turnKey] ELSE NoEntries,
                               key, file.content))
                  ELSE acc.turnWorkspaceFiles]
        ELSE acc

\* the body of the workspace loop for one file (lines 651-701)
WorkspaceFile(acc, file) ==
    IF IsWorkspaceFile(file)
    THEN Bind(extractAgentFromPath(file.path), LAMBDA id :
             Bind(extractTurnFromPath(file.path), LAMBDA turnNum :
                 WorkspaceFileOf(acc, file, id, turnNum)))
    ELSE acc

RECURSIVE WorkspaceFiles(_, _)
\* workspaceFiles and turnWorkspaceFiles after the first n files of the
\* workspace loop (lines 649-702)
WorkspaceFiles(files, n) ==
    IF n = 0 THEN [workspaceFiles |-> NoEntries, turnWorkspaceFiles |-> NoEntries]
    ELSE Bind(WorkspaceFiles(files, n - 1), LAMBDA acc : WorkspaceFile(acc, files[n]))

\* lines 744-750 of the returned session
SessionSummary(manifest, question, winner, totals) ==
    [question |-> Or(GetOpt(manifest, "question"), question),
     winner |-> Or(GetOpt(manifest, "winner"), winner),
     cost |-> Or(Or(GetOpt(manifest, "total_cost"),
                    Get(totals, "estimated_cost")), JInt(0)),
     inputTokens |->
         Or(Or(GetOpt(GetOpt(manifest, "total_tokens"), "input"),
               Get(totals, "input_tokens")), JInt(0)),
     outputTokens |->
         Or(Or(GetOpt(GetOpt(manifest, "total_tokens"), "output"),
               Get(totals, "output_tokens")), JInt(0))]

\* lines 528-535 and 716-761, after the loops
SessionModel(files, routed, answered, votes) ==
    LET metrics == routed.metrics
        status == routed.status
        coordination == routed.coordination
        meta == Or(Get(metrics, "meta"), EmptyObject)
        statusMeta == Or(Get(status, "meta"), EmptyObject)
        totals == Or(Get(metrics, "totals"), EmptyObject)
        sessionMeta == Or(Get(coordination, "session_metadata"), EmptyObject)
        question == Or(Or(Or(Get(meta, "question"), Get(statusMeta, "question")),
                          Get(sessionMeta, "user_prompt")), JStr(S_Unknown))
        winner == Or(Or(Get(meta, "winner"), GetOpt(Get(status, "results"), "winner")),
                     Get(sessionMeta, "final_winner"))
        manifest == parseSessionManifest(files)
        sessionStatus == getSessionStatus(manifest, files)
        errorInfo == getErrorInfo(manifest, files)
    IN  IF sessionStatus.t = "TypeError" THEN sessionStatus
        ELSE IF errorInfo.t = "TypeError" THEN errorInfo
        ELSE [t |-> "data",
              metrics |-> metrics,
              status |-> status,
              coordination |-> coordination,
              snapshotMappings |-> routed.snapshotMappings,
              workspaceFiles |-> WorkspaceFiles(files, Len(files)).workspaceFiles,
              turnWorkspaceFiles |-> WorkspaceFiles(files, Len(files)).turnWorkspaceFiles,
              manifest |-> manifest,
              isLegacy |-> detectLegacyGist(files),
              sessionStatus |-> sessionStatus,
              errorInfo |-> errorInfo,
              turns |-> getTurnsFromManifest(manifest),
              perTurnData |-> answered.perTurnData,
              session |->
                  Bind(manifest, LAMBDA m :
                      Bind(question, LAMBDA q :
                          Bind(winner, LAMBDA w :
                              Bind(totals, LAMBDA tot :
                                  SessionSummary(m, q, w, tot))))),
              answers |-> answered.answers,
              votes |-> [a \in DOMAIN votes |-> sortVotes(votes[a])],
              files |-> files]

\* extractSessionData after its three loops over the files
SessionOf(files, routed, answered, voted) ==
        IF routed.metrics = JNull THEN TypeError(529)
        ELSE IF routed.status = JNull THEN TypeError(530)
        ELSE IF routed.coordination = JNull THEN TypeError(532)
        ELSE IF voted.thrown THEN TypeError(588)
        ELSE IF EventsThrow(routed.coordination) THEN TypeError(708)
        ELSE SessionModel(files, routed, answered, voted.votes)

\* extractSessionData (lines 480-762)
extractSessionData(files) ==
    Bind(RouteFiles(files, Len(files)), LAMBDA routed :
        Bind(AnswerFiles(files, Len(files), routed.perTurnData), LAMBDA answered :
            Bind(VoteFiles(files, Len(files)), LAMBDA voted :
                SessionOf(files, routed, answered, voted))))

\* the file maps of the model: at most MaxFiles entries with distinct paths,
\* drawn from the files below

File(path, content) == [path |-> path, content |-> content]

\* a metrics_summary.json document; n tells the documents apart
MetricsDoc(n) ==
    JObj(<<KV("meta", JObj(<<KV("question", JStr(<<"q">> \o NatToStr(n))),
                             KV("winner", JStr(S_agent_a))>>)),
           KV("totals", JObj(<<KV("estimated_cost", JInt(n)),
                               KV("input_tokens", JInt(n)),
                               KV("output_tokens", JInt(n + 1))>>))>>)

\* a status.json document with one round of the given outcome
StatusDoc(outcome) ==
    JObj(<<KV("meta", JObj(<<KV("question", JStr(<<"q", "s">>))>>)),
           KV("rounds", JObj(<<KV("by_outcome", JObj(<<KV(outcome, JInt(1))>>))>>))>>)

\* a coordination_events.json document
CoordinationDoc ==
    JObj(<<KV("session_metadata", JObj(<<KV("user_prompt", JStr(<<"q", "c">>))>>)),
           KV("events", JArr(<<>>))>>)

\* a vote.json document; round 0 stands for a document without
\* coordination_round
VoteDoc(votedFor, round) ==
    JObj(<<KV("voted_for", JStr(votedFor))>>
         \o (IF round = 0 THEN <<>> ELSE <<KV("coordination_round", JInt(round))>>))

\* a _session_manifest.json document
ManifestDoc ==
    JObj(<<KV("question", JStr(<<"q", "m">>)),
           KV("status", JStr(S_error)),
           KV("total_cost", JInt(0)),
           KV("total_tokens", JObj(<<KV("input", JInt(0)), KV("output", JInt(9))>>))>>)

MetricsFiles ==
    {File(S_metrics_summary_json, c) : c \in {MetricsDoc(0), JNull}}
    \cup {File(JoinPath(<<TurnPrefix(1, 1), S_metrics_summary_json>>), c) :
             c \in {MetricsDoc(1), EmptyObject}}
    \cup {File(JoinPath(<<TurnPrefix(1, 2), S_metrics_summary_json>>), MetricsDoc(2))}
    \cup {File(JoinPath(<<TurnPrefix(2, 1), S_metrics_summary_json>>), c) :
             c \in {MetricsDoc(3), JStr(<<>>)}}

StatusFiles ==
    {File(S_status_json, c) : c \in {StatusDoc("completed"), JInt(5)}}
    \cup {File(JoinPath(<<TurnPrefix(1, 1), S_status_json>>), c) :
             c \in {StatusDoc("error"), JNull}}
    \cup {File(JoinPath(<<TurnPrefix(2, 1), S_status_json>>), c) :
             c \in {StatusDoc("timeout"), JArr(<<>>)}}

EventFiles ==
    {File(JoinPath(<<TurnPrefix(1, 1), S_coordination_events_json>>), CoordinationDoc),
     File(JoinPath(<<TurnPrefix(2, 1), S_snapshot_mappings_json>>),
          JObj(<<KV("agent_a", JStr(<<"s">>))>>))}

AnswerFilesOfModel ==
    {File(JoinPath(<<TurnPrefix(1, 1), S_agent_a, S_ts_0000, S_answer_txt>>), JStr(<<"x">>)),
     File(JoinPath(<<TurnPrefix(1, 2), S_agent_a, S_ts_0000, S_answer_txt>>), JStr(<<"y">>)),
     File(JoinPath(<<TurnPrefix(2, 1), S_agent_b, S_ts_0000, S_answer_txt>>), JStr(<<>>)),
     File(JoinPath(<<S_agent_a, S_ts_0000, S_answer_txt>>), JStr(<<"z">>)),
     File(JoinPath(<<TurnPrefix(1, 1), S_final, S_agent_a, S_answer_txt>>), JStr(<<"x">>))}

VoteFilesOfModel ==
    {File(JoinPath(<<TurnPrefix(1, 1), S_agent_a, S_ts_0000, S_vote_json>>),
          VoteDoc(S_agent_b, 2)),
     File(JoinPath(<<TurnPrefix(1, 1), S_agent_a, S_ts_1200, S_vote_json>>),
          VoteDoc(S_agent_a, 1)),
     File(JoinPath(<<TurnPrefix(2, 1), S_agent_b, S_ts_0000, S_vote_json>>),
          VoteDoc(S_agent_a, 0)),
     File(JoinPath(<<S_agent_a, S_ts_0000, S_vote_json>>), VoteDoc(S_agent_b, 1)),
     File(JoinPath(<<TurnPrefix(1, 2), S_agent_b, S_ts_0000, S_vote_json>>), JNull)}

\* a _session_manifest.json document with a winner and totals that are not 0
ManifestDocWithWinner ==
    JObj(<<KV("question", JStr(<<"q", "w">>)),
           KV("winner", JStr(S_agent_b)),
           KV("total_cost", JInt(7)),
           KV("total_tokens", JObj(<<KV("input", JInt(8)), KV("output", JInt(9))>>))>>)

ManifestFiles ==
    {File(S_session_manifest_json, c) :
        c \in {ManifestDoc, ManifestDocWithWinner, EmptyObject}}

\* workspace files: under final/ without timestamp, without final/ and
\* timestamp, both also in the flattened form, and one with a timestamp
WorkspaceFilesOfModel ==
    {File(JoinPath(<<TurnPrefix(1, 1), S_final, S_agent_a, S_workspace, S_f_txt>>),
          JStr(<<"n">>)),
     File(flattenPath(JoinPath(<<TurnPrefix(1, 1), S_final, S_agent_a, S_workspace,
                                 S_f_txt>>)),
          JStr(<<"f">>)),
     File(JoinPath(<<S_agent_a, S_workspace, S_f_txt>>), JStr(<<"d">>)),
     File(flattenPath(JoinPath(<<S_agent_a, S_workspace, S_f_txt>>)), JStr(<<"e">>)),
     File(JoinPath(<<TurnPrefix(2, 1), S_agent_b, S_ts_0000, S_workspace, S_f_txt>>),
          JStr(<<"t">>))}

FileSet ==
    MetricsFiles \cup StatusFiles \cup EventFiles \cup AnswerFilesOfModel
        \cup VoteFilesOfModel \cup ManifestFiles \cup WorkspaceFilesOfModel

\* the keys of an object are distinct
DistinctPaths(files) ==
    \A i, j \in 1..Len(files) : files[i].path = files[j].path => i = j

FileMaps ==
    {files \in UNION {[1..n -> FileSet] : n \in 0..MaxFiles} : DistinctPaths(files)}

SessInit ==
    /\ YamlIdle /\ PathIdle /\ GraphIdle /\ AnsIdle /\ CoerceIdle /\ FetchIdle /\ TurnIdle
    /\ sFiles \in FileMaps
    /\ sOut = JNull
    /\ sPc = "start"

\* the call extractSessionData(files) of loadSession
extractSession ==
    /\ sPc = "start"
    /\ sOut' = extractSessionData(sFiles)
    /\ sPc' = "done"
    /\ UNCHANGED <<sFiles, notSess>>

SessNext == extractSession

SpecSession == SessInit /\ [][SessNext]_vars
----------------------------------------------------------------------------
(* Claims about extractSessionData.                                        *)

\* C5: extractSessionData never throws: for every file map whose values are
\* results of the content resolver (a string, a parsed JSON value including
\* null, a number, an array, an object lacking the expected fields) it
\* returns a session model.
C5_ExtractNeverThrows == sPc = "done" => sOut.t = "data"

\* the four kinds of document the first loop routes
DocKinds ==
    {[field |-> "metrics", suffix |-> S_metrics_summary_json],
     [field |-> "status", suffix |-> S_status_json],
     [field |-> "coordination", suffix |-> S_coordination_events_json],
     [field |-> "snapshotMappings", suffix |-> S_snapshot_mappings_json]}

IsDocFile(file, kind) == EndsWith(file.path, kind.suffix) /\ TypeofObject(file.content)

\* the turn key of a path, or the empty string for a path without one
KeyOf(path) ==
    LET turnAttempt == extractTurnAttemptFromPath(path)
    IN  IF turnAttempt # JNull THEN turnAttempt.key ELSE <<>>

\* an answer file with a resolvable agent id and timestamp
IsRoutedAnswer(file) ==
    /\ IsAnswerFile(file)
    /\ Truthy(extractAgentFromPath(file.path).agentId)
    /\ Truthy(extractAgentFromPath(file.path).timestamp)

ExpectedAnswer(file) ==
    AnswerDataOf(file, extractTurnAttemptFromPath(file.path),
                 extractAgentFromPath(file.path))

\* a vote file with a resolvable agent id
IsRoutedVote(file) ==
    IsVoteFile(file) /\ Truthy(extractAgentFromPath(file.path).agentId)

ExpectedVote(file) ==
    VoteOf(file, extractTurnFromPath(file.path), extractAgentFromPath(file.path))

\* the documents: the last document of a kind is the global one, the last
\* one of a kind under a turn key is in that key's bucket, and a bucket holds
\* no document of another key
DocsPartitioned ==
    /\ \A i \in 1..Len(sFiles), kind \in DocKinds :
          IsDocFile(sFiles[i], kind) =>
              /\ (\A j \in (i + 1)..Len(sFiles) : ~IsDocFile(sFiles[j], kind))
                     => sOut[kind.field] = sFiles[i].content
              /\ (/\ KeyOf(sFiles[i].path) # <<>>
                  /\ \A j \in (i + 1)..Len(sFiles) :
                         ~(/\ IsDocFile(sFiles[j], kind)
                           /\ KeyOf(sFiles[j].path) = KeyOf(sFiles[i].path)))
                     => /\ KeyOf(sFiles[i].path) \in DOMAIN sOut.perTurnData
                        /\ sOut.perTurnData[KeyOf(sFiles[i].path)][kind.field]
                               = sFiles[i].content
    /\ \A key \in DOMAIN sOut.perTurnData, kind \in DocKinds :
          sOut.perTurnData[key][kind.field] # EmptyObject =>
              \E i \in 1..Len(sFiles) :
                  /\ IsDocFile(sFiles[i], kind)
                  /\ KeyOf(sFiles[i].path) = key
                  /\ sFiles[i].content = sOut.perTurnData[key][kind.field]

\* the answers, in the same way, by label
AnswersPartitioned ==
    /\ \A i \in 1..Len(sFiles) :
          IsRoutedAnswer(sFiles[i]) =>
              LET answer == ExpectedAnswer(sFiles[i])
                  key == KeyOf(sFiles[i].path)
              IN  /\ (\A j \in (i + 1)..Len(sFiles) :
                         ~(/\ IsRoutedAnswer(sFiles[j])
                           /\ ExpectedAnswer(sFiles[j]).label = answer.label))
                         => /\ answer.label \in DOMAIN sOut.answers
                            /\ sOut.answers[answer.label] = answer
                  /\ (/\ key # <<>>
                      /\ \A j \in (i + 1)..Len(sFiles) :
                             ~(/\ IsRoutedAnswer(sFiles[j])
                               /\ KeyOf(sFiles[j].path) = key
                               /\ ExpectedAnswer(sFiles[j]).label = answer.label))
                         => /\ key \in DOMAIN sOut.perTurnData
                            /\ answer.label \in DOMAIN sOut.perTurnData[key].answers
                            /\ sOut.perTurnData[key].answers[answer.label] = answer
    /\ \A key \in DOMAIN sOut.perTurnData :
          \A label \in DOMAIN sOut.perTurnData[key].answers :
              \E i \in 1..Len(sFiles) :
                  /\ IsRoutedAnswer(sFiles[i])
                  /\ KeyOf(sFiles[i].path) = key
                  /\ ExpectedAnswer(sFiles[i]) = sOut.perTurnData[key].answers[label]

\* a vote is in the list of votes of the dictionary under the voter's id
VoteIn(votes, vote) ==
    /\ vote.agent_id.s \in DOMAIN votes
    /\ \E k \in 1..Len(votes[vote.agent_id.s]) : votes[vote.agent_id.s][k] = vote

\* the votes: every vote is in the global dictionary, and a vote under a
\* turn key is in that key's bucket
VotesPartitioned ==
    \A i \in 1..Len(sFiles) :
        IsRoutedVote(sFiles[i]) =>
            /\ VoteIn(sOut.votes, ExpectedVote(sFiles[i]))
            /\ KeyOf(sFiles[i].path) # <<>> =>
                   /\ KeyOf(sFiles[i].path) \in DOMAIN sOut.perTurnData
                   /\ VoteIn(sOut.perTurnData[KeyOf(sFiles[i].path)].votes,
                             ExpectedVote(sFiles[i]))

\* C6: aggregation partitions the routed files by turn key: a metrics,
\* status, coordination, snapshot mappings, answer or vote file is recorded
\* in the bucket perTurnData["T_A"] exactly when its path carries the prefix
\* turn_T/attempt_A, in no other turn bucket, and always in the global
\* bucket.
C6_PartitionByTurnKey ==
    (sPc = "done" /\ sOut.t = "data") =>
        DocsPartitioned /\ AnswersPartitioned /\ VotesPartitioned
----------------------------------------------------------------------------
(* renderAnswers: the votes panel (src/app.js 1996-2225).  data holds the  *)
(* answers of the turn shown (getDataForCurrentTurn(data).answers, by      *)
(* label), the votes of extractSessionData (by voter), the keys of         *)
(* status.agents of the turn shown, and currentTurn.  The result is, for   *)
(* each agent tab, the votes shown with their displayed label.             *)

S_NA == <<"N", "/", "A">>

\* currentTurn ? parseInt(currentTurn.split('_')[0], 10) : null (line 2004)
currentTurnNumOf(currentTurn) ==
    IF Truthy(currentTurn)
    THEN JInt(DigitsToNat(Split(currentTurn.s, <<"_">>)[1]))
    ELSE JNull

\* the filter of lines 2006-2008
filteredVotesOf(agentVotes, currentTurnNum) ==
    LET keep == {k \in 1..Len(agentVotes) :
                    \/ currentTurnNum = JNull
                    \/ agentVotes[k].turn = JNull
                    \/ agentVotes[k].turn = currentTurnNum}
    IN  FilterSeq(agentVotes, keep)

\* the votes dictionary of lines 2003-2012: the voters with a vote left
votesOfTurn(allVotes, currentTurnNum) ==
    [a \in {v \in DOMAIN allVotes : filteredVotesOf(allVotes[v], currentTurnNum) # <<>>}
        |-> filteredVotesOf(allVotes[a], currentTurnNum)]

\* the labels of intermediateAnswers (lines 2019-2021)
intermediateLabels(answers) ==
    {l \in DOMAIN answers : answers[l].type # "final_answer"}

\* answersByAgent[aid]?.length, 0 for an agent without entry (lines 2036-2043)
answerCountOf(answers, aid) ==
    Cardinality({l \in intermediateLabels(answers) : answers[l].agent_id.s = aid})

\* Array.from(set).sort(): the strings in code unit order
SortStrings(set) ==
    LET rank(s) == Cardinality({x \in set : StrLess(x, s)}) + 1
    IN  [k \in 1..Cardinality(set) |-> CHOOSE s \in set : rank(s) = k]

\* agentIds (lines 2046-2048)
agentIdsOf(answers, statusAgents) ==
    SortStrings({answers[l].agent_id.s : l \in intermediateLabels(answers)}
                \cup {statusAgents[k] : k \in 1..Len(statusAgents)})

\* agentToLabelFallback[aid] for the agent at 0-based position aidx of
\* agentIds (lines 2173-2176)
agentToLabelFallback(answers, aid, aidx) ==
    LET count == answerCountOf(answers, aid)
        agentAnswerCount == IF count # 0 THEN count ELSE 1
    IN  DotLabel(NatToStr(aidx + 1), NatToStr(agentAnswerCount))

\* votedForLabel of a vote (lines 2179-2181)
votedForLabelShown(vote, answers, agentIds) ==
    LET votedForRaw == IF Truthy(vote.voted_for) THEN vote.voted_for.s ELSE S_NA
        listed == {k \in 1..Len(agentIds) : agentIds[k] = votedForRaw}
    IN  IF Truthy(vote.voted_for_label) THEN vote.voted_for_label.s
        ELSE IF listed # {}
        THEN agentToLabelFallback(answers, votedForRaw, (CHOOSE k \in listed : TRUE) - 1)
        ELSE votedForRaw

\* the votes sub-panel of one agent tab (lines 2087, 2170-2225)
votesPanel(agentId, votes, answers, agentIds) ==
    LET agentVotes == IF agentId \in DOMAIN votes THEN votes[agentId] ELSE <<>>
    IN  [k \in 1..Len(agentVotes) |->
            [vote |-> agentVotes[k],
             votedForLabel |-> votedForLabelShown(agentVotes[k], answers, agentIds)]]

\* renderAnswers (lines 1996-2225): whether the tabs were rendered, and the
\* tabs with their votes
renderAnswersTabs(data) ==
    LET votes == votesOfTurn(data.votes, currentTurnNumOf(data.currentTurn))
        agentIds == agentIdsOf(data.answers, data.statusAgents)
    IN  IF Len(agentIds) = 0
        THEN [rendered |-> FALSE, agentIds |-> <<>>, panels |-> <<>>]
        ELSE [rendered |-> TRUE,
              agentIds |-> agentIds,
              panels |-> [i \in 1..Len(agentIds) |->
                             votesPanel(agentIds[i], votes, data.answers, agentIds)]]

\* the data of the model

S_agent_x == <<"a", "g", "e", "n", "t", "_", "x">>

S_label_9_9 == <<"9", ".", "9">>

\* an answer of the turn shown, as extractSessionData records it
AnswerOf(agentId, timestamp, type) ==
    [label |-> DotLabel(agentId, timestamp), agent_id |-> JStr(agentId),
     timestamp |-> JStr(timestamp), type |-> type]

AnswerSet ==
    {AnswerOf(S_agent_a, S_ts_0000, "answer"),
     AnswerOf(S_agent_b, S_ts_0000, "answer"),
     AnswerOf(S_agent_x, S_ts_1200, "final_answer")}

\* the answers dictionary of a set of answers
AnswersDict(set) ==
    [l \in {a.label : a \in set} |-> CHOOSE a \in set : a.label = l]

\* a vote of extractSessionData's votes, with the fields renderAnswers reads
VoteBy(voter, votedFor, label, turn) ==
    [agent_id |-> JStr(voter), voted_for |-> votedFor,
     voted_for_label |-> label, turn |-> turn]

VoteSet ==
    {VoteBy(voter, votedFor, label, JInt(turn)) :
        voter \in {S_agent_a, S_agent_b},
        votedFor \in {JStr(S_agent_b), JStr(S_agent_x), JUndef},
        label \in {JUndef, JStr(S_label_9_9)},
        turn \in 1..2}

\* votes[agentId]: the votes of the list cast by the agent, in order
VotesDict(list) ==
    [a \in {list[k].agent_id.s : k \in 1..Len(list)} |->
        FilterSeq(list, {k \in 1..Len(list) : list[k].agent_id.s = a})]

AnsInit ==
    /\ YamlIdle /\ PathIdle /\ GraphIdle /\ SessIdle /\ CoerceIdle /\ FetchIdle /\ TurnIdle
    /\ \E answers \in SUBSET AnswerSet,
          list \in UNION {[1..n -> VoteSet] : n \in 0..MaxVotes},
          statusAgents \in {<<>>, <<S_agent_a>>, <<S_agent_x>>, <<S_agent_a, S_agent_x>>},
          currentTurn \in {JNull, JStr(<<"1", "_", "1">>)} :
          aData = [answers |-> AnswersDict(answers), votes |-> VotesDict(list),
                   statusAgents |-> statusAgents, currentTurn |-> currentTurn]
    /\ aOut = JNull
    /\ aPc = "start"

renderAnswers ==
    /\ aPc = "start"
    /\ aOut' = renderAnswersTabs(aData)
    /\ aPc' = "done"
    /\ UNCHANGED <<aData, notAns>>

AnsNext == renderAnswers

SpecAnswers == AnsInit /\ [][AnsNext]_vars

----------------------------------------------------------------------------
(* Claims about renderAnswers.                                             *)

\* a vote shown without voted_for_label whose voted-for agent has no answer
\* in the current data
VoteForAgentWithoutAnswers(vote) ==
    /\ Truthy(vote.voted_for)
    /\ ~Truthy(vote.voted_for_label)
    /\ \A l \in DOMAIN aData.answers :
           aData.answers[l].agent_id.s # vote.voted_for.s

\* C10: a vote with voted_for = X and no voted_for_label, where no answers
\* exist for agent X in the current data (whether or not X is listed among
\* the status agents), is displayed with the raw agent id X as its label.
C10_VoteLabelRawIdFallback ==
    aPc = "done" =>
        \A i \in 1..Len(aOut.panels) : \A k \in 1..Len(aOut.panels[i]) :
            VoteForAgentWithoutAnswers(aOut.panels[i][k].vote)
                => aOut.panels[i][k].votedForLabel = aOut.panels[i][k].vote.voted_for.s
----------------------------------------------------------------------------
(* parseYamlValue on its own (src/app.js 299-312): the tokens it is run    *)
(* on, and String(value) for the values it returns.                        *)

\* String(v) for a value parseYamlValue returns
StringOf(v) ==
    IF v.t = "null" THEN <<"n", "u", "l", "l">>
    ELSE IF v.t = "bool"
    THEN (IF v.b THEN <<"t", "r", "u", "e">> ELSE <<"f", "a", "l", "s", "e">>)
    ELSE IF v.t = "num"
    THEN (IF v.neg THEN <<"-">> ELSE <<>>) \o NatToStr(v.ip)
             \o (IF v.fp = <<>> THEN <<>> ELSE <<".">> \o v.fp)
    ELSE v.s

TokenChars == {"'", "\"", "0", "1", "-", ".", "~", "a"}

\* tokens longer than MaxTokenLen that the short ones cannot stand for
LongTokens ==
    {<<"t", "r", "u", "e">>, <<"f", "a", "l", "s", "e">>, <<"n", "u", "l", "l">>,
     <<"\"", "t", "r", "u", "e", "\"">>, <<"'", "n", "u", "l", "l", "'">>,
     <<"\"", "4", "2", "\"">>, <<"'", "1", ".", "5", "'">>,
     <<"-", "1", "2", ".", "5", "0">>, <<"0", "0", "7">>,
     <<"\"", "a", " ", "b", "'">>, <<"t", "r", "u", "e", "1">>}

Tokens ==
    UNION {[1..n -> TokenChars] : n \in 0..MaxTokenLen} \cup LongTokens

CoerceInit ==
    /\ YamlIdle /\ PathIdle /\ GraphIdle /\ SessIdle /\ AnsIdle /\ FetchIdle /\ TurnIdle
    /\ cToken \in Tokens
    /\ cValue = JNull
    /\ cAgain = JNull
    /\ cPc = "start"

\* parseYamlValue(str)
coerce ==
    /\ cPc = "start"
    /\ cValue' = parseYamlValue(cToken)
    /\ cPc' = "coerced"
    /\ UNCHANGED <<cToken, cAgain, notCoerce>>

\* parseYamlValue(String(value)) for the value just returned
coerceAgain ==
    /\ cPc = "coerced"
    /\ cAgain' = parseYamlValue(StringOf(cValue))
    /\ cPc' = "done"
    /\ UNCHANGED <<cToken, cValue, notCoerce>>

CoerceNext == coerce \/ coerceAgain

SpecCoerce == CoerceInit /\ [][CoerceNext]_vars

----------------------------------------------------------------------------
(* Claims about parseYamlValue.                                            *)

IsQuote(c) == c = "'" \/ c = "\""

\* the token is wrapped in matching single or double quotes
WrappedInQuotes(t) ==
    Len(t) >= 2 /\ IsQuote(t[1]) /\ t[Len(t)] = t[1]

\* the value the rules of the claim give for a token, by the first rule
\* that matches
ValueByRules(t) ==
    IF t = <<>> \/ t = <<"n", "u", "l", "l">> \/ t = <<"~">> THEN JNull
    ELSE IF t = <<"t", "r", "u", "e">> THEN JBool(TRUE)
    ELSE IF t = <<"f", "a", "l", "s", "e">> THEN JBool(FALSE)
    ELSE IF IsIntToken(t) \/ IsFloatToken(t) THEN ParseNumber(t)
    ELSE IF WrappedInQuotes(t) THEN JStr(SubSeq(t, 2, Len(t) - 1))
    ELSE JStr(t)

\* C11: parseYamlValue maps every token by the first matching rule: empty,
\* null or ~ to null, true/false to the boolean, -?digits to the integer,
\* -?digits.digits to the float, a token wrapped in matching quotes to the
\* token without the two quotes, and any other token (a lone quote
\* character, differing quotes) to the token unchanged.
C11_CoerceRules == cPc \in {"coerced", "done"} => cValue = ValueByRules(cToken)

\* C12: parseYamlValue is idempotent through stringification: for every
\* token t, parseYamlValue(String(parseYamlValue(t))) equals
\* parseYamlValue(t), quoted tokens such as "true" or "42" included.
C12_CoerceIdempotent == cPc = "done" => cAgain = cValue
----------------------------------------------------------------------------
(* parseGistFiles and processFileContent (src/app.js 367-425).  The file   *)
(* map is the sequence of File(path, document) in insertion order.  The    *)
(* texts of the model hold no backslash and no exponent, so JSON.parse is  *)
(* modelled without string escapes and without exponents.                  *)

S_dot_json == <<".", "j", "s", "o", "n">>

S_dot_yaml == <<".", "y", "a", "m", "l">>

S_dot_yml == <<".", "y", "m", "l">>

S_uraw == <<"_", "r", "a", "w">>

\* the result of parsing a JSON value: whether one was read, the value, and
\* the 0-based position after it
JsonFail == [ok |-> FALSE, v |-> JUndef, i |-> 0]

JsonOk(v, i) == [ok |-> TRUE, v |-> v, i |-> i]

RECURSIVE SkipWs(_, _)
\* the position of the first character at or after i that is not JSON
\* whitespace
SkipWs(s, i) ==
    IF i < Len(s) /\ IsSpace(s[i + 1]) THEN SkipWs(s, i + 1) ELSE i

\* the character of s at the 0-based position i, or "" past the end
CharAt(s, i) == IF i >= 0 /\ i < Len(s) THEN s[i + 1] ELSE ""

\* the position after the JSON number -?(0|[1-9]\d*)(\.\d+)? at i, or -1
JsonNumberEnd(s, i) ==
    LET j == IF CharAt(s, i) = "-" THEN i + 1 ELSE i
        n == DigitRun(SliceFrom(s, j))
        intLen == IF n > 0 /\ CharAt(s, j) = "0" THEN 1 ELSE n
        k == j + intLen
        fracLen == IF CharAt(s, k) = "." THEN DigitRun(SliceFrom(s, k + 1)) ELSE 0
    IN  IF intLen = 0 THEN -1
        ELSE IF fracLen > 0 THEN k + 1 + fracLen
        ELSE k

\* the JSON string at i (an opening quote is at i)
JsonString(s, i) ==
    LET close == IndexOf(SliceFrom(s, i + 1), <<"\"">>)
        body == Slice(s, i + 1, i + 1 + close)
    IN  IF close < 0 \/ Includes(body, <<"\n">>) THEN JsonFail
        ELSE JsonOk(JStr(body), i + close + 2)

\* obj[k] = v while parsing an object: a repeated key keeps its place
PutKV(props, k, v) ==
    IF \E n \in 1..Len(props) : props[n].k = k
    THEN [n \in 1..Len(props) |-> IF props[n].k = k THEN KV(k, v) ELSE props[n]]
    ELSE Append(props, KV(k, v))

RECURSIVE JsonValue(_, _)
RECURSIVE JsonElements(_, _, _)
RECURSIVE JsonMembers(_, _, _)

\* the elements of an array from the position i of an element on
JsonElements(s, i, items) ==
    Bind(JsonValue(s, i), LAMBDA r :
        IF ~r.ok THEN JsonFail
        ELSE LET j == SkipWs(s, r.i)
             IN  IF CharAt(s, j) = "," THEN JsonElements(s, j + 1, Append(items, r.v))
                 ELSE IF CharAt(s, j) = "]" THEN JsonOk(JArr(Append(items, r.v)), j + 1)
                 ELSE JsonFail)

\* the members of an object from the position i of a member on
JsonMembers(s, i, props) ==
    LET j == SkipWs(s, i)
    IN  IF CharAt(s, j) # "\"" THEN JsonFail
        ELSE Bind(JsonString(s, j), LAMBDA key :
            IF ~key.ok \/ CharAt(s, SkipWs(s, key.i)) # ":" THEN JsonFail
            ELSE Bind(JsonValue(s, SkipWs(s, key.i) + 1), LAMBDA r :
                IF ~r.ok THEN JsonFail
                ELSE LET m == SkipWs(s, r.i)
                     IN  IF CharAt(s, m) = ","
                         THEN JsonMembers(s, m + 1, PutKV(props, key.v.s, r.v))
                         ELSE IF CharAt(s, m) = "}"
                         THEN JsonOk(JObj(PutKV(props, key.v.s, r.v)), m + 1)
                         ELSE JsonFail))

\* the JSON value at or after the position i
JsonValue(s, i) ==
    LET j == SkipWs(s, i)
        c == CharAt(s, j)
    IN  IF MatchAt(s, <<"n", "u", "l", "l">>, j) THEN JsonOk(JNull, j + 4)
        ELSE IF MatchAt(s, <<"t", "r", "u", "e">>, j) THEN JsonOk(JBool(TRUE), j + 4)
        ELSE IF MatchAt(s, <<"f", "a", "l", "s", "e">>, j) THEN JsonOk(JBool(FALSE), j + 5)
        ELSE IF c = "\"" THEN JsonString(s, j)
        ELSE IF c = "-" \/ IsDigit(c)
        THEN LET end == JsonNumberEnd(s, j)
             IN  IF end < 0 THEN JsonFail
                 ELSE JsonOk(ParseNumber(Slice(s, j, end)), end)
        ELSE IF c = "["
        THEN IF CharAt(s, SkipWs(s, j + 1)) = "]"
             THEN JsonOk(JArr(<<>>), SkipWs(s, j + 1) + 1)
             ELSE JsonElements(s, j + 1, <<>>)
        ELSE IF c = "{"
        THEN IF CharAt(s, SkipWs(s, j + 1)) = "}"
             THEN JsonOk(EmptyObject, SkipWs(s, j + 1) + 1)
             ELSE JsonMembers(s, j + 1, <<>>)
        ELSE JsonFail

\* JSON.parse(text): the value, or thrown for a text that is not one JSON
\* value between whitespace
JSONparse(text) ==
    Bind(JsonValue(text, 0), LAMBDA r :
        IF r.ok /\ SkipWs(text, r.i) = Len(text)
        THEN [thrown |-> FALSE, value |-> r.v]
        ELSE [thrown |-> TRUE, value |-> JUndef])

RECURSIVE parseYamlLines(_, _, _, _)
\* the for loop of parseYaml from lines[i] on (lines 223-294): the heap at
\* the end, or thrown
parseYamlLines(lines, i, heap, stack) ==
    IF i >= Len(lines) THEN [thrown |-> FALSE, heap |-> heap]
    ELSE Bind(parseYamlLine(lines[i + 1], heap, stack), LAMBDA r :
             IF r.thrown THEN [thrown |-> TRUE, heap |-> heap]
             ELSE parseYamlLines(lines, i + 1, r.heap, r.stack))

\* parseYaml(yamlStr) (lines 218-297): the mapping returned, or thrown
parseYaml(yamlStr) ==
    Bind(parseYamlLines(Split(yamlStr, <<"\n">>), 0, <<NewObject>>, <<RootFrame>>),
         LAMBDA r :
             IF r.thrown THEN [thrown |-> TRUE, value |-> JUndef]
             ELSE [thrown |-> FALSE, value |-> Materialize(r.heap, JRef(1))])

\* files[path] = doc
FilePut(files, path, doc) ==
    IF \E n \in 1..Len(files) : files[n].path = path
    THEN [n \in 1..Len(files) |->
             IF files[n].path = path THEN File(path, doc) ELSE files[n]]
    ELSE Append(files, File(path, doc))

\* parsed._raw = content (line 418)
WithRaw(parsed, content) == [obj |-> Put(parsed.obj, S_uraw, JStr(content))]

\* the YAML branch of processFileContent (lines 413-422)
YamlDocument(content) ==
    Bind(parseYaml(content), LAMBDA r :
        IF r.thrown THEN JStr(content) ELSE WithRaw(r.value, content))

\* processFileContent with a catch block that stores '' for a *.json file
\* that fails to parse
processFileContent_EmptyOnFailure(files, filename, path, content) ==
    IF EndsWith(filename, S_dot_json)
    THEN Bind(JSONparse(content), LAMBDA r :
             FilePut(files, path, IF r.thrown THEN JStr(<<>>) ELSE r.value))
    ELSE IF EndsWith(filename, S_dot_yaml) \/ EndsWith(filename, S_dot_yml)
    THEN FilePut(files, path, YamlDocument(content))
    ELSE FilePut(files, path, JStr(content))

\* processFileContent(files, filename, path, content) (lines 405-425): the
\* file map afterwards
processFileContent(files, filename, path, content) ==
    IF EndsWith(filename, S_dot_json)
    THEN Bind(JSONparse(content), LAMBDA r :
             FilePut(files, path, IF r.thrown THEN JStr(content) ELSE r.value))
    ELSE IF EndsWith(filename, S_dot_yaml) \/ EndsWith(filename, S_dot_yml)
    THEN FilePut(files, path, YamlDocument(content))
    ELSE FilePut(files, path, JStr(content))

\* fileData.truncated || !fileData.content (line 374)
NeedsFetch(fileData) == fileData.truncated \/ fileData.content = <<>>

RECURSIVE InlineFiles(_, _, _)
\* the file map after the for loop of lines 371-387 from gist file i on: the
\* files with inline content are processed in the loop
InlineFiles(gist, i, files) ==
    IF i > Len(gist) THEN files
    ELSE IF NeedsFetch(gist[i]) THEN InlineFiles(gist, i + 1, files)
    ELSE Bind(processFileContent(files, gist[i].filename,
                                 unflattenPath(gist[i].filename), gist[i].content),
              LAMBDA next : InlineFiles(gist, i + 1, next))

\* a promise of fetchPromises: the gist file it fetches, and once settled
\* the content it is fulfilled with
Promise(file, state, outcome, content) ==
    [file |-> file, state |-> state, outcome |-> outcome, content |-> content]

\* fetchPromises after the for loop (lines 375-381)
FetchPromisesOf(gist) ==
    LET idx == {i \in 1..Len(gist) : NeedsFetch(gist[i])}
        nth(k) == CHOOSE i \in idx : Cardinality({j \in idx : j < i}) = k - 1
    IN  [k \in 1..Cardinality(idx) |-> Promise(nth(k), "pending", "none", <<>>)]

\* Promise.all(fetchPromises) is fulfilled (line 391): no promise rejects,
\* each has a catch handler
AllSettled(promises) ==
    \A k \in 1..Len(promises) : promises[k].state = "settled"

RECURSIVE FetchedFiles(_, _, _, _)
\* the file map after the loop of lines 392-394 from fetchedFiles[k] on
FetchedFiles(gist, promises, k, files) ==
    IF k > Len(promises) THEN files
    ELSE Bind(processFileContent(files, gist[promises[k].file].filename,
                                 unflattenPath(gist[promises[k].file].filename),
                                 promises[k].content),
              LAMBDA next : FetchedFiles(gist, promises, k + 1, next))

\* the texts and the file names of the model

T_null == <<"n", "u", "l", "l">>

T_obj == <<"{", "\"", "a", "\"", ":", "1", "}">>

T_arr == <<"[", "1", ",", " ", "\"", "b", "\"", "]">>

T_nested == <<"{", "\"", "a", "\"", ":", "{", "\"", "b", "\"", ":", "[", "]", "}", ",",
              "\"", "a", "\"", ":", "-", "1", ".", "5", "}">>

T_num == <<" ", "4", "2", "\n">>

T_cut == <<"{", "\"", "a", "\"", ":">>

T_lead0 == <<"0", "0", "7">>

T_trail == <<"{", "}", " ", "x">>

T_yaml == <<"a", ":", " ", "1", "\n", "b", ":", "\n", " ", " ", "-", " ", "x">>

\* a YAML text on which parseYaml raises RangeError
T_yaml_throw == TextOf(<<L_agents, L_item_id_a, L_length_x>>)

\* the body of an HTTP error response
T_404 == <<"4", "0", "4", ":", " ", "N", "o", "t", " ", "F", "o", "u", "n", "d">>

N_turn_status ==
    <<"t", "u", "r", "n", "_", "1", "_", "_", "a", "t", "t", "e", "m", "p", "t", "_", "1",
      "_", "_", "s", "t", "a", "t", "u", "s", ".", "j", "s", "o", "n">>

N_turn2_status ==
    <<"t", "u", "r", "n", "_", "2", "_", "_", "a", "t", "t", "e", "m", "p", "t", "_", "1",
      "_", "_", "s", "t", "a", "t", "u", "s", ".", "j", "s", "o", "n">>

N_config ==
    <<"e", "x", "e", "c", "u", "t", "i", "o", "n", "_", "m", "e", "t", "a", "d", "a", "t",
      "a", ".", "y", "a", "m", "l">>

N_yml == <<"c", "o", "n", "f", "i", "g", ".", "y", "m", "l">>

N_answer ==
    <<"a", "g", "e", "n", "t", "_", "a", "_", "_", "2", "0", "2", "5", "0", "1", "0", "1",
      "_", "0", "0", "0", "0", "_", "_", "a", "n", "s", "w", "e", "r", ".", "t", "x", "t">>

JsonTexts == {<<>>, T_null, T_obj, T_arr, T_nested, T_num, T_cut, T_lead0, T_trail, T_yaml}

\* the full texts a file of a name can have
TextsOf(filename) ==
    IF filename = N_turn_status THEN JsonTexts
    ELSE IF filename = N_turn2_status THEN {T_nested}
    ELSE IF filename = N_config THEN {<<>>, T_yaml, T_obj}
    ELSE IF filename = N_yml THEN {T_yaml, T_yaml_throw}
    ELSE {<<>>, T_yaml}

\* the length of the content the API leaves of a truncated file
TruncatedLen == 3

\* a file of gist.files: its name, whether the API truncated it, the content
\* the API gives, and the full text at raw_url
GistFile(filename, truncated, raw) ==
    [filename |-> filename, truncated |-> truncated,
     content |-> IF truncated THEN Slice(raw, 0, TruncatedLen) ELSE raw,
     raw |-> raw]

GistFileSet ==
    {GistFile(filename, truncated, raw) :
        filename \in {N_turn_status, N_turn2_status, N_config, N_yml, N_answer},
        truncated \in BOOLEAN,
        raw \in JsonTexts \cup {T_yaml_throw}}

\* gist.files: an object, so the names are distinct
Gists ==
    {g \in UNION {[1..n -> GistFileSet] : n \in 0..MaxGistFiles} :
        /\ \A i \in 1..Len(g) : g[i].raw \in TextsOf(g[i].filename)
        /\ \A i, j \in 1..Len(g) : i # j => g[i].filename # g[j].filename}

FetchInit ==
    /\ YamlIdle /\ PathIdle /\ GraphIdle /\ SessIdle /\ AnsIdle /\ CoerceIdle /\ TurnIdle
    /\ fGist \in Gists
    /\ fPromises = <<>>
    /\ fFiles = <<>>
    /\ fCore = JNull
    /\ fPc = "start"

\* parseGistFiles up to its await (lines 367-391); without a promise it
\* returns the file map at once
parseGistFilesLoop ==
    /\ fPc = "start"
    /\ fFiles' = InlineFiles(fGist, 1, <<>>)
    /\ fPromises' = FetchPromisesOf(fGist)
    /\ fPc' = IF FetchPromisesOf(fGist) = <<>> THEN "returned" ELSE "await"
    /\ UNCHANGED <<fGist, fCore, notFetch>>

\* promise k is settled with the content of outcome
Settle(k, outcome, content) ==
    /\ fPc = "await"
    /\ fPromises[k].state = "pending"
    /\ fPromises' = [fPromises EXCEPT ![k] =
                        Promise(@.file, "settled", outcome, content)]
    /\ UNCHANGED <<fGist, fFiles, fCore, fPc, notFetch>>

\* fetch(raw_url) answers 200 and r.text() gives the full text (lines 377-379)
fetchFulfilled(k) == Settle(k, "ok", fGist[fPromises[k].file].raw)

\* fetch(raw_url) answers an HTTP error: fetch resolves, and r.text() gives
\* the body of the error response (lines 377-379)
fetchHttpError(k) == Settle(k, "http_error", T_404)

\* fetch(raw_url) or r.text() rejects: the catch handler gives '' (line 380)
fetchRejected(k) == Settle(k, "rejected", <<>>)

\* parseGistFiles after its await (lines 391-397)
parseGistFilesResume ==
    /\ fPc = "await"
    /\ AllSettled(fPromises)
    /\ fFiles' = FetchedFiles(fGist, fPromises, 1, fFiles)
    /\ fPc' = "returned"
    /\ UNCHANGED <<fGist, fPromises, fCore, notFetch>>

\* sessionData = extractSessionData(files) (init, line 3239)
initExtract ==
    /\ fPc = "returned"
    /\ fCore' = fFiles
    /\ fPc' = "core"
    /\ UNCHANGED <<fGist, fPromises, fFiles, notFetch>>

FetchNext ==
    \/ parseGistFilesLoop
    \/ \E k \in 1..Len(fPromises) : fetchFulfilled(k)
    \/ \E k \in 1..Len(fPromises) : fetchHttpError(k)
    \/ \E k \in 1..Len(fPromises) : fetchRejected(k)
    \/ parseGistFilesResume
    \/ initExtract

SpecFetch == FetchInit /\ [][FetchNext]_vars

----------------------------------------------------------------------------
(* Claims about parseGistFiles and processFileContent.                     *)

\* files[path], or undefined
EntryOf(files, path) ==
    IF \E n \in 1..Len(files) : files[n].path = path
    THEN files[CHOOSE n \in 1..Len(files) : files[n].path = path].content
    ELSE JUndef

\* the file map has one entry for every file of the gist
OneEntryPerFile(files, gist) ==
    /\ Len(files) = Len(gist)
    /\ \A i \in 1..Len(gist) :
          Cardinality({n \in 1..Len(files) :
                          files[n].path = unflattenPath(gist[i].filename)}) = 1

\* the secondary fetch of promise k failed: it rejected, or it was answered
\* with an HTTP error
FetchFailed(k) == fPromises[k].outcome \in {"rejected", "http_error"}

\* the core is invoked only after every fetch has settled, with one entry
\* for every file of the gist
FanIn ==
    fPc = "core" => AllSettled(fPromises) /\ OneEntryPerFile(fCore, fGist)

\* a file whose fetch failed has the empty string as content
FailedIsEmptyString ==
    fPc = "core" =>
        \A k \in 1..Len(fPromises) :
            FetchFailed(k) =>
                EntryOf(fCore, unflattenPath(fGist[fPromises[k].file].filename))
                    = JStr(<<>>)

\* C13: under every interleaving and outcome of the secondary fetches,
\* extractSessionData is invoked only after every fetch has settled, with a
\* file map that has one entry for every file of the gist, and a file whose
\* secondary fetch failed has the empty string as content.
C13_FanInBeforeCore == FanIn /\ FailedIsEmptyString

\* the content handed to processFileContent for gist file i: the inline
\* content, or the content its promise is fulfilled with
HandedContent(i) ==
    IF NeedsFetch(fGist[i])
    THEN fPromises[CHOOSE k \in 1..Len(fPromises) : fPromises[k].file = i].content
    ELSE fGist[i].content

\* the texts handed to processFileContent in the model, with what JSON.parse
\* does with each
JsonCases ==
    {[text |-> <<>>, valid |-> FALSE, value |-> JUndef],
     [text |-> T_null, valid |-> TRUE, value |-> JNull],
     [text |-> T_obj, valid |-> TRUE, value |-> JObj(<<KV(<<"a">>, JInt(1))>>)],
     [text |-> T_arr, valid |-> TRUE, value |-> JArr(<<JInt(1), JStr(<<"b">>)>>)],
     [text |-> T_nested, valid |-> TRUE,
      value |-> JObj(<<KV(<<"a">>, JNum(TRUE, 1, <<"5">>))>>)],
     [text |-> T_num, valid |-> TRUE, value |-> JInt(42)],
     [text |-> T_cut, valid |-> FALSE, value |-> JUndef],
     [text |-> T_lead0, valid |-> FALSE, value |-> JUndef],
     [text |-> T_trail, valid |-> FALSE, value |-> JUndef],
     [text |-> T_yaml, valid |-> FALSE, value |-> JUndef],
     [text |-> T_404, valid |-> FALSE, value |-> JUndef]}

JsonCaseOf(text) == CHOOSE c \in JsonCases : c.text = text

\* the texts handed to processFileContent under a *.yaml or *.yml name on
\* which parseYaml raises: the full text, not its first characters
YamlRaises(text) == text = T_yaml_throw

\* the mapping parseYaml gives for the texts handed to processFileContent
\* under a *.yaml or *.yml name
YamlMappingOf(text) ==
    IF text = T_yaml THEN (<<"a">> :> JInt(1)) @@ (<<"b">> :> [obj |-> <<>>])
    ELSE IF text = T_obj
    THEN (<<"{", "\"", "a", "\"">> :> JStr(<<"1", "}">>))
    ELSE IF text = T_404
    THEN (<<"4", "0", "4">> :> JStr(<<"N", "o", "t", " ", "F", "o", "u", "n", "d">>))
    ELSE <<>>

\* the document the claim gives for a file name and a content
DocumentByClaim(filename, content) ==
    IF EndsWith(filename, S_dot_json)
    THEN IF JsonCaseOf(content).valid THEN JsonCaseOf(content).value
         ELSE JStr(content)
    ELSE IF EndsWith(filename, S_dot_yaml) \/ EndsWith(filename, S_dot_yml)
    THEN IF YamlRaises(content) THEN JStr(content)
         ELSE [obj |-> YamlMappingOf(content) @@ (S_uraw :> JStr(content))]
    ELSE JStr(content)

\* C14: content resolution never propagates a parse failure: a *.json file
\* whose content is not valid JSON (the empty string included) is stored as
\* its raw text, a valid *.json file as its parsed value, a *.yaml or *.yml
\* file as its parsed mapping with the original text retained under _raw,
\* and any other file as its text.
C14_ContentResolution ==
    fPc \in {"returned", "core"} =>
        \A i \in 1..Len(fGist) :
            EntryOf(fFiles, unflattenPath(fGist[i].filename))
                = DocumentByClaim(fGist[i].filename, HandedContent(i))

\* a gist with a *.json file that is not valid JSON and a YAML file has
\* been resolved
C14_Witness ==
    /\ fPc = "returned"
    /\ \E i, j \in 1..Len(fGist) :
          /\ EndsWith(fGist[i].filename, S_dot_json)
          /\ HandedContent(i) = T_cut
          /\ EntryOf(fFiles, unflattenPath(fGist[i].filename)) = JStr(T_cut)
          /\ EndsWith(fGist[j].filename, S_dot_yaml)
          /\ HandedContent(j) = T_yaml

\* the manifest defines the field f
Defines(v, f) == GetOpt(v, f) # JUndef

\* the value of the session model equals the manifest's value where the
\* manifest defines one
ManifestValueIs(manifestValue, sessionValue) ==
    manifestValue # JUndef => sessionValue = manifestValue

ManifestPrecedence ==
    /\ ManifestValueIs(GetOpt(sOut.manifest, "question"), sOut.session.question)
    /\ ManifestValueIs(GetOpt(sOut.manifest, "winner"), sOut.session.winner)
    /\ ManifestValueIs(GetOpt(sOut.manifest, "total_cost"), sOut.session.cost)
    /\ ManifestValueIs(GetOpt(GetOpt(sOut.manifest, "total_tokens"), "input"),
                       sOut.session.inputTokens)
    /\ ManifestValueIs(GetOpt(GetOpt(sOut.manifest, "total_tokens"), "output"),
                       sOut.session.outputTokens)

\* C15: whenever a session manifest is present and defines question, winner,
\* total_cost or total_tokens, the question, winner, cost and input/output
\* token counts of the session model equal the manifest's values, whatever
\* the metrics and status files say, including when the manifest value is 0.
C15_ManifestPrecedence ==
    (sPc = "done" /\ sOut.t = "data" /\ sOut.manifest # JNull) => ManifestPrecedence

\* a status.json document of the file map whose rounds.by_outcome counts the
\* outcome
StatusFileCounts(files, outcome) ==
    \E i \in 1..Len(files) :
        /\ EndsWith(files[i].path, S_status_json)
        /\ TypeofObject(files[i].content)
        /\ GreaterThanZero(
               GetOpt(GetOpt(GetOpt(files[i].content, "rounds"), "by_outcome"), outcome))

\* the session status the claim derives
StatusByClaim(manifest, files) ==
    IF Truthy(GetOpt(manifest, "status")) THEN GetOpt(manifest, "status")
    ELSE IF StatusFileCounts(files, "error") THEN JStr(S_error)
    ELSE IF StatusFileCounts(files, "timeout") THEN JStr(S_timeout)
    ELSE JStr(S_complete)

\* C16: the session status is the manifest's status when the manifest
\* provides one; otherwise it is "error" if a status.json has
\* rounds.by_outcome.error > 0, else "timeout" if one has
\* rounds.by_outcome.timeout > 0, else "complete"; with several status.json
\* files an error count in any of them gives "error" in preference to a
\* timeout count in another.
C16_SessionStatus ==
    (sPc = "done" /\ sOut.t = "data") =>
        sOut.sessionStatus = StatusByClaim(sOut.manifest, sFiles)

\* the vote files of the file map that resolve to the agent id, by position
VoteFilesBy(agentId) ==
    {i \in 1..Len(sFiles) :
        /\ IsRoutedVote(sFiles[i])
        /\ extractAgentFromPath(sFiles[i].path).agentId.s = agentId}

\* the position in the file map of the file a vote of the list comes from
FileOfVote(vote) ==
    CHOOSE i \in VoteFilesBy(vote.agent_id.s) : ExpectedVote(sFiles[i]) = vote

\* every vote file of the agent has one entry in the list, and the list has
\* no other entry
HistoryKept(agentId, list) ==
    /\ Len(list) = Cardinality(VoteFilesBy(agentId))
    /\ \A i \in VoteFilesBy(agentId) :
          Cardinality({k \in 1..Len(list) : list[k] = ExpectedVote(sFiles[i])}) = 1

\* the list is in ascending order of round, and votes of equal round are in
\* the order of their files
OrderedByRound(list) ==
    \A k, l \in 1..Len(list) :
        k < l =>
            \/ RoundOrZero(list[k]) < RoundOrZero(list[l])
            \/ /\ RoundOrZero(list[k]) = RoundOrZero(list[l])
               /\ FileOfVote(list[k]) < FileOfVote(list[l])

----------------------------------------------------------------------------
(* Turn selection: init, renderHeader, the turn tabs, setCurrentTurn and   *)
(* getDataForCurrentTurn (src/app.js 136-163, 767-789, 820-854, 943-952,   *)
(* 3229-3262).  tShown holds what a section that filters by turn is handed *)
(* (renderAnswers, lines 1999-2015), tWorkspaceShown what renderWorkspace  *)
(* is handed (lines 2779-2780).                                            *)

S_none == <<"n", "o", "n", "e">>

S_1_1 == <<"1", "_", "1">>

S_undefined == <<"u", "n", "d", "e", "f", "i", "n", "e", "d">>

\* style.display of the element try-session-section in the page as loaded:
\* the section is shown, no code makes it visible for a single-turn session
TrySectionDisplayAsLoaded == <<>>

\* `${v}`
TemplateOf(v) == IF v.t = "undefined" THEN S_undefined ELSE StringOf(v)

\* `${turn.turn_number}_${turn.attempt_number || 1}` (lines 845, 943)
turnKeyOf(turn) ==
    TemplateOf(Get(turn, "turn_number")) \o <<"_">>
        \o TemplateOf(Or(Get(turn, "attempt_number"), JInt(1)))

\* isMultiTurn (line 822)
isMultiTurn(data) == Len(data.turns.items) > 1

\* currentTurn after renderHeader (lines 838-853)
currentTurnAfterHeader(data, currentTurn) ==
    IF isMultiTurn(data)
    THEN LET turns == Or(GetOpt(data.manifest, "turns"), JArr(<<>>)).items
             keys == SortStrings(DOMAIN data.perTurnData)
         IN  IF Len(turns) > 0 THEN JStr(turnKeyOf(turns[Len(turns)]))
             ELSE IF Len(keys) > 0 THEN JStr(keys[Len(keys)])
             ELSE JStr(S_1_1)
    ELSE currentTurn

\* getDataForCurrentTurn (lines 767-789)
getDataForCurrentTurn(data, currentTurn) ==
    IF currentTurn = JNull \/ currentTurn.s \notin DOMAIN data.perTurnData
    THEN data
    ELSE LET turnData == data.perTurnData[currentTurn.s]
             turnWsFiles ==
                 IF currentTurn.s \in DOMAIN data.turnWorkspaceFiles
                 THEN data.turnWorkspaceFiles[currentTurn.s]
                 ELSE data.workspaceFiles
         IN  [data EXCEPT
                 !.metrics = Or(turnData.metrics, data.metrics),
                 !.status = Or(turnData.status, data.status),
                 !.coordination = Or(turnData.coordination, data.coordination),
                 !.snapshotMappings = Or(turnData.snapshotMappings, data.snapshotMappings),
                 !.answers = turnData.answers,
                 !.workspaceFiles = turnWsFiles]

\* what renderAnswers reads of the filtered data (lines 1999-2015)
ShownOf(data, currentTurn) ==
    Bind(getDataForCurrentTurn(data, currentTurn), LAMBDA filteredData :
        [answers |-> filteredData.answers,
         workspaceFiles |-> filteredData.workspaceFiles])

\* parseInt(s, 10) of a string without sign and blanks
parseIntOf(s) ==
    IF DigitRun(s) = 0 THEN [t |-> "NaN"]
    ELSE JInt(DigitsToNat(Slice(s, 0, DigitRun(s))))

\* turnNumber (line 145)
turnNumberOf(turnKey) ==
    IF Truthy(turnKey) THEN parseIntOf(Split(turnKey.s, <<"_">>)[1]) ELSE JNull

\* trySection.style.display (line 146)
tryDisplayFor(turnKey) ==
    IF turnNumberOf(turnKey) = JInt(1) \/ turnKey = JNull THEN <<>> ELSE S_none

\* init after extractSessionData (lines 3239-3255): currentTurn and what the
\* sections are handed
initRendered(data) ==
    Bind(currentTurnAfterHeader(data, JNull), LAMBDA currentTurn :
        [data |-> data,
         currentTurn |-> currentTurn,
         shown |-> ShownOf(data, currentTurn),
         workspaceShown |-> ShownOf(data, currentTurn).workspaceFiles])

\* the sessions of the model

\* an entry of manifest.turns; attempt 0 stands for an entry without
\* attempt_number
TurnDoc(t, a) ==
    JObj(<<KV("turn_number", JInt(t))>>
         \o (IF a = 0 THEN <<>> ELSE <<KV("attempt_number", JInt(a))>>))

TurnLists ==
    {<<>>,
     <<TurnDoc(1, 1)>>,
     <<TurnDoc(1, 1), TurnDoc(2, 1)>>,
     <<TurnDoc(1, 1), TurnDoc(2, 0)>>,
     <<TurnDoc(1, 1), TurnDoc(1, 2)>>,
     <<TurnDoc(1, 1), TurnDoc(1, 2), TurnDoc(2, 1)>>}

TurnManifest(turns) == JObj(<<KV("turns", JArr(turns))>>)

\* the answer and workspace files of two turns
TurnFiles ==
    <<File(JoinPath(<<TurnPrefix(1, 1), S_agent_a, S_ts_0000, S_answer_txt>>),
           JStr(<<"x">>)),
      File(JoinPath(<<TurnPrefix(1, 2), S_agent_a, S_ts_0000, S_answer_txt>>),
           JStr(<<"y">>)),
      File(JoinPath(<<TurnPrefix(2, 1), S_agent_b, S_ts_0000, S_answer_txt>>),
           JStr(<<"z">>)),
      File(JoinPath(<<TurnPrefix(1, 1), S_agent_a, S_ts_0000, S_workspace, S_f_txt>>),
           JStr(<<"v">>)),
      File(JoinPath(<<TurnPrefix(2, 1), S_agent_b, S_ts_0000, S_workspace, S_f_txt>>),
           JStr(<<"w">>))>>

TurnFileMaps ==
    {<<File(S_session_manifest_json, TurnManifest(turns))>> \o FilterSeq(TurnFiles, keep) :
        turns \in TurnLists, keep \in SUBSET (1..Len(TurnFiles))}

TurnInit ==
    /\ YamlIdle /\ PathIdle /\ GraphIdle /\ SessIdle /\ AnsIdle /\ CoerceIdle /\ FetchIdle
    /\ tFiles \in TurnFileMaps
    /\ tData = JNull
    /\ tCurrentTurn = JNull
    /\ tTryDisplay = TrySectionDisplayAsLoaded
    /\ tShown = JNull
    /\ tWorkspaceShown = JNull
    /\ tPc = "start"

\* init from extractSessionData on (lines 3239-3261); an exception of
\* extractSessionData ends in showError
init ==
    /\ tPc = "start"
    /\ LET r == Bind(extractSessionData(tFiles), LAMBDA data :
                    IF data.t = "TypeError"
                    THEN [data |-> data, currentTurn |-> JNull,
                          shown |-> JNull, workspaceShown |-> JNull]
                    ELSE initRendered(data))
       IN  /\ tData' = r.data
           /\ tCurrentTurn' = r.currentTurn
           /\ tShown' = r.shown
           /\ tWorkspaceShown' = r.workspaceShown
           /\ tPc' = IF r.data.t = "TypeError" THEN "error" ELSE "rendered"
    /\ UNCHANGED <<tFiles, tTryDisplay, notTurn>>

\* the number of turn tabs renderTurnNavigation created (lines 838, 926)
TabCount ==
    IF tPc = "rendered" /\ isMultiTurn(tData) THEN Len(tData.turns.items) ELSE 0

\* a click on the tab of data.turns[k]: setCurrentTurn(turnKey) (lines
\* 136-163, 949-952); renderWorkspace is not among the sections rendered
\* again
clickTurnTab(k) ==
    /\ tPc = "rendered"
    /\ k \in 1..TabCount
    /\ LET turnKey == JStr(turnKeyOf(tData.turns.items[k]))
       IN  /\ tCurrentTurn' = turnKey
           /\ tTryDisplay' = tryDisplayFor(turnKey)
           /\ tShown' = ShownOf(tData, turnKey)
    /\ UNCHANGED <<tFiles, tData, tWorkspaceShown, tPc, notTurn>>

TurnNext ==
    \/ init
    \/ \E k \in 1..TabCount : clickTurnTab(k)

SpecTurn == TurnInit /\ [][TurnNext]_vars

----------------------------------------------------------------------------
(* Claims about the turn selection.                                        *)

\* C17: after any sequence of turn selections, whenever a turn key is
\* selected, every answer in the data handed to the rendering sections has
\* turnKey equal to the selected key (no answer when that turn has no
\* files).
C17_AnswersOfSelectedTurn ==
    (tPc = "rendered" /\ tCurrentTurn # JNull) =>
        \A label \in DOMAIN tShown.answers :
            tShown.answers[label].turnKey = tCurrentTurn

\* the workspace files recorded from the files under the turn key
WorkspaceFilesOfTurn(key) ==
    LET own == {i \in 1..Len(tFiles) : KeyOf(tFiles[i].path) = key}
    IN  WorkspaceFiles(FilterSeq(tFiles, own), Cardinality(own)).workspaceFiles

\* C18: when a turn+attempt key is selected and workspace files were
\* recorded for that turn, the workspace files given to rendering are
\* exactly those whose path belongs to the selected turn.
C18_WorkspaceOfSelectedTurn ==
    (/\ tPc = "rendered"
     /\ tCurrentTurn # JNull
     /\ WorkspaceFilesOfTurn(tCurrentTurn.s) # NoEntries) =>
        tShown.workspaceFiles = WorkspaceFilesOfTurn(tCurrentTurn.s)

\* C19: for a multi-turn session, in every state after the initial
\* rendering and after any sequence of clicks on turn tabs, the section
\* "Try This Session" is visible only if the current turn number is 1.
C19_TryThisSessionOnTurnOne ==
    (tPc = "rendered" /\ isMultiTurn(tData)) =>
        (tTryDisplay # S_none => turnNumberOf(tCurrentTurn) = JInt(1))
----------------------------------------------------------------------------
(* Further claims about the coordination graph.                            *)

\* the timestamps of the final_answer events of an agent in the input list
FinalTimestampsOf(agentId) ==
    {TimestampOrZero(gEvents[i]) :
        i \in {j \in 1..Len(gEvents) :
                  /\ gEvents[j].event_type = "final_answer"
                  /\ AgentOrUnknown(gEvents[j]) = agentId}}

\* C21: when an agent has several final_answer events, the one that
\* survives de-duplication is the one with the smallest timestamp, whatever
\* the order of the events in the input list.
C21_FirstFinalInTimestampOrder ==
    gPc = "done" =>
        \A r \in 1..Len(gOut.rows) :
            gOut.rows[r].type = "final_answer" =>
                \A t \in FinalTimestampsOf(gOut.rows[r].agentId) :
                    TimestampOrZero(gOut.rows[r].event) <= t

\* the one-to-one maps of 1..n onto 1..n
PermutationsOf(n) ==
    {p \in [1..n -> 1..n] : \A i, j \in 1..n : i # j => p[i] # p[j]}

\* the rows are the events of list taken in the order p, in ascending
\* timestamp order, events of equal timestamp in their order in list
IsStableTimestampOrder(rows, list, p) ==
    /\ \A k \in 1..Len(list) : rows[k].event = list[p[k]]
    /\ \A i, j \in 1..Len(list) :
           i < j =>
               /\ TimestampOrZero(rows[i].event) <= TimestampOrZero(rows[j].event)
               /\ TimestampOrZero(rows[i].event) = TimestampOrZero(rows[j].event)
                      => p[i] < p[j]

\* C22: the output rows are the surviving events in ascending timestamp
\* order (a missing timestamp counting as 0): the rows are a permutation of
\* the surviving events, for rows i < j timestamp(i) <= timestamp(j), and
\* events of equal timestamp keep their relative input order.
C22_RowsInTimestampOrder ==
    gPc = "done" =>
        /\ Len(gOut.rows) = Len(gOut.deduped)
        /\ \E p \in PermutationsOf(Len(gOut.deduped)) :
               IsStableTimestampOrder(gOut.rows, gOut.deduped, p)

\* the surviving events were not in timestamp order, two different ones
\* have the same timestamp, and the rows came out
C22_Witness ==
    /\ gPc = "done"
    /\ gOut.rendered
    /\ \E i, j \in 1..Len(gOut.deduped) :
          /\ i < j
          /\ TimestampOrZero(gOut.deduped[i]) > TimestampOrZero(gOut.deduped[j])
    /\ \E i, j \in 1..Len(gOut.rows) :
          /\ i < j
          /\ gOut.rows[i].event # gOut.rows[j].event
          /\ TimestampOrZero(gOut.rows[i].event) = TimestampOrZero(gOut.rows[j].event)

\* the labels of the new_answer rows before the row at the 0-based index r
EarlierAnswerLabels(r) ==
    {gOut.rows[q].label :
        q \in {k \in 1..r : gOut.rows[k].type = "new_answer"}}

\* the elements of a list
ElementsOf(list) == {list[k] : k \in 1..Len(list)}

\* C23: for every new_answer row at index r, contextAnswerLabels is the set
\* of the labels of all new_answer rows with index strictly less than r, of
\* any agent; for every vote_cast row at index r, availableOptionLabels is
\* that same set, regardless of the voter; no label of a row at index >= r
\* appears.
C23_ContextIsEarlierAnswers ==
    gPc = "done" =>
        \A r \in 0..(Len(gOut.rows) - 1) :
            /\ gOut.rows[r + 1].type = "new_answer"
                   => ElementsOf(gOut.rows[r + 1].contextAnswers) = EarlierAnswerLabels(r)
            /\ gOut.rows[r + 1].type = "vote_cast"
                   => ElementsOf(gOut.rows[r + 1].availableOptions) = EarlierAnswerLabels(r)

\* the 1-based rows of the new_answer events
NewAnswerRows == {r \in 1..Len(gOut.rows) : gOut.rows[r].type = "new_answer"}

\* C28: in every event list, also one with events whose agent_id is missing
\* (agent "unknown"), no two distinct new_answer rows receive the same
\* display label, the label registry holds one entry per new_answer row, and
\* the label computed for a new_answer row in the second pass equals the
\* label registered for it in the first pass.
C28_AnswerLabelsUnique ==
    (gPc = "done" /\ gOut.rendered) =>
        /\ \A r, q \in NewAnswerRows : r # q => gOut.rows[r].label # gOut.rows[q].label
        /\ Len(gOut.registry) = Cardinality(NewAnswerRows)
        /\ \A r \in NewAnswerRows :
               \E k \in 1..Len(gOut.registry) :
                   /\ gOut.registry[k].value.row = r - 1
                   /\ gOut.registry[k].key = gOut.rows[r].label
----------------------------------------------------------------------------
(* Further claims about parseYaml.                                         *)

K_tags == <<"t", "a", "g", "s">>

\* "tags:\n  - a\n  - 2\n"
TagsYaml == TextOf(<<L_tags, L_item_a, L_item_2>>)

\* {tags: ["a", 2]}
TagsYamlExpected ==
    [obj |-> (K_tags :>
        [items |-> <<JStr(<<"a">>), JInt(2)>>,
         props |-> [k \in {} |-> JNull]])]

\* C24: for a key with an empty value followed by indented bare items
\* ("tags:\n  - a\n  - 2\n"), the value bound to the key is converted to a
\* sequence and each "- value" item is appended as its coerced scalar:
\* the result is {tags: ["a", 2]}, the items in input order.
C24_ScalarSequence ==
    (yPc = "done" /\ yText = TagsYaml) => parseYamlResult = TagsYamlExpected

\* the line the next step of the loop processes
CurrentLine == yLines[yI + 1]

\* a blank line or a comment line (line 226)
IsBlankOrComment(line) ==
    Trim(line) = <<>> \/ StartsWith(Trim(line), <<"#">>)

\* a sequence item ("- ...") whose parent is no sequence and whose parent
\* key cannot be resolved: the frame has no key, or the grandparent has no
\* value bound to it (lines 250-254)
IsUnresolvableItem(line) ==
    /\ ~IsBlankOrComment(line)
    /\ StartsWith(Trim(line), <<"-", " ">>)
    /\ LET popped == PopFrames(yStack, SearchNonSpace(line))
           parentInfo == popped[Len(popped)]
           grandparent == IF Len(popped) > 1 THEN popped[Len(popped) - 1].obj ELSE 1
       IN  /\ ~yHeap[parentInfo.obj].isArr
           /\ ~(/\ KeyTruthy(parentInfo.key)
                /\ HasProp(yHeap[grandparent], parentInfo.key.s))

\* the step of a line of a kind leaves the result as it is
LeavesResultUnchanged(IsOfKind(_)) ==
    (parseYamlStep /\ IsOfKind(CurrentLine)) =>
        Materialize(yHeap', JRef(1)) = Materialize(yHeap, JRef(1))

\* no line makes parseYaml raise
NeverRaises == parseYamlStep => yPc' # "thrown"

\* C25: parseYaml is total and permissive: for every input text it goes
\* through the lines once and returns a mapping without raising; a sequence
\* item whose parent key cannot be resolved (a "- x" or "- k: v" line at the
\* root) is dropped and leaves the result built so far unchanged, and blank
\* lines and comment lines never change the result.
C25_TotalAndPermissive ==
    [][/\ NeverRaises
       /\ parseYamlStep => yI' <= Len(yLines)
       /\ parseYamlReturn => ~yHeap[1].isArr
       /\ LeavesResultUnchanged(IsUnresolvableItem)
       /\ LeavesResultUnchanged(IsBlankOrComment)]_vars

\* the heap cells a set of cells refers to: the values of their properties
\* and their items
RefsOf(heap, ids) ==
    {v.id : v \in {w \in UNION {{heap[id].props[k] : k \in DOMAIN heap[id].props}
                                 \cup {heap[id].items[n] : n \in 1..Len(heap[id].items)} :
                                    id \in ids} : w.t = "ref"}}

RECURSIVE ReachableFrom(_, _)
\* the heap cells reachable from a set of cells
ReachableFrom(heap, ids) ==
    IF RefsOf(heap, ids) \subseteq ids THEN ids
    ELSE ReachableFrom(heap, ids \cup RefsOf(heap, ids))

\* the 1-based positions of the lines processed so far that are neither
\* blank nor a comment
ProcessedLines == {n \in 1..yI : ~IsBlankOrComment(yLines[n])}

\* the indent of the line processed last
LastIndent ==
    SearchNonSpace(yLines[CHOOSE n \in ProcessedLines : \A m \in ProcessedLines : m <= n])

\* the stack is non-empty with the root frame at the bottom, and the
\* indents increase strictly from bottom to top
StackIsOrdered ==
    /\ Len(yStack) >= 1
    /\ yStack[1] = RootFrame
    /\ \A n \in 1..(Len(yStack) - 1) : yStack[n].indent < yStack[n + 1].indent

\* no frame lies deeper than the line processed last plus 2
StackWithinIndent ==
    ProcessedLines # {} => \A n \in 1..Len(yStack) : yStack[n].indent <= LastIndent + 2

\* every node a frame refers to is reachable from the result root
FramesReachable ==
    \A n \in 1..Len(yStack) : yStack[n].obj \in ReachableFrom(yHeap, {1})

\* C30: after processing each line the stack of parseYaml is non-empty with
\* the root frame (indent -2) at the bottom, the frame indents increase
\* strictly from bottom to top, every frame has an indent less than or
\* equal to the indent of the line just processed plus 2, and every node a
\* frame refers to is reachable from the result root.
C30_StackInvariant ==
    yPc \in {"loop", "done"} =>
        StackIsOrdered /\ StackWithinIndent /\ FramesReachable

\* three lines have been processed and the stack holds at least the root
\* frame, the frame of a key and on top the frame of a sequence item, two
\* columns deeper than the line just processed
C30_Witness ==
    /\ yPc = "loop"
    /\ yI >= 3
    /\ Len(yStack) >= 3
    /\ yStack[Len(yStack)].indent = LastIndent + 2
    /\ Len(PopFrames(yStack, LastIndent)) < Len(yStack)
----------------------------------------------------------------------------
(* Further claims about extractSessionData.                                *)

\* the positions of the files that give a document of a kind, and of those
\* under a turn key
DocFilesOf(kind) == {i \in 1..Len(sFiles) : IsDocFile(sFiles[i], kind)}

DocFilesUnder(kind, key) == {i \in DocFilesOf(kind) : KeyOf(sFiles[i].path) = key}

\* the turn keys that contribute a document of a kind
KeysOf(kind) == {KeyOf(sFiles[i].path) : i \in DocFilesOf(kind)} \ {<<>>}

\* the last position of a set of positions
LastOf(positions) == CHOOSE i \in positions : \A j \in positions : j <= i

\* C27: when several turns each contribute the same logical file
\* (metrics_summary.json, status.json, coordination_events.json or
\* snapshot_mappings.json), the global bucket holds the document of the file
\* encountered last in iteration order, and each turn's bucket holds the
\* document of that turn's own file: a later turn's file never changes an
\* earlier turn's bucket.
C27_GlobalLastWriteWins ==
    (sPc = "done" /\ sOut.t = "data") =>
        \A kind \in DocKinds :
            DocFilesOf(kind) # {} =>
                /\ sOut[kind.field] = sFiles[LastOf(DocFilesOf(kind))].content
                /\ \A key \in KeysOf(kind) :
                       sOut.perTurnData[key][kind.field]
                           = sFiles[LastOf(DocFilesUnder(kind, key))].content

\* two turns have contributed different documents of one kind: the global
\* bucket holds the second, the bucket of the first turn the first
C27_Witness ==
    /\ sPc = "done"
    /\ sOut.t = "data"
    /\ \E kind \in DocKinds : \E i, j \in DocFilesOf(kind) :
          /\ i < j
          /\ KeyOf(sFiles[i].path) # <<>>
          /\ KeyOf(sFiles[j].path) # <<>>
          /\ KeyOf(sFiles[i].path) # KeyOf(sFiles[j].path)
          /\ sFiles[i].content # sFiles[j].content
          /\ sOut[kind.field] = sFiles[j].content
          /\ sOut.perTurnData[KeyOf(sFiles[i].path)][kind.field] = sFiles[i].content

\* the segments of a path in either convention
SegmentsOf(path) ==
    IF Includes(path, S_slash) THEN Split(path, S_slash) ELSE Split(path, S_uu)

\* the position of the segment "workspace"
WorkspaceAt(path) ==
    CHOOSE w \in 1..Len(SegmentsOf(path)) :
        /\ SegmentsOf(path)[w] = S_workspace
        /\ \A v \in 1..(w - 1) : SegmentsOf(path)[v] # S_workspace

\* whether the workspace lies under a timestamp segment
HasTimestamp(path) ==
    /\ WorkspaceAt(path) > 1
    /\ IsTimestampPart(SegmentsOf(path)[WorkspaceAt(path) - 1])

\* the agent that owns the workspace: the segment before "workspace", or
\* before the timestamp
OwnerOf(path) ==
    SegmentsOf(path)[WorkspaceAt(path) - (IF HasTimestamp(path) THEN 2 ELSE 1)]

\* the timestampKey of the claim: the timestamp, else "final" under a final
\* segment, else "default"
TimestampKeyOf(path) ==
    IF HasTimestamp(path) THEN SegmentsOf(path)[WorkspaceAt(path) - 1]
    ELSE IF \E v \in 1..Len(SegmentsOf(path)) : SegmentsOf(path)[v] = S_final
    THEN S_final
    ELSE S_default

\* the path of the file below "workspace", with "/" between its segments
RelativePathOf(path) ==
    LET segs == SegmentsOf(path)
    IN  JoinPath(SubSeq(segs, WorkspaceAt(path) + 1, Len(segs)))

\* agentId -> timestampKey -> relativePath of a workspace file
WorkspaceKeyOf(path) == <<OwnerOf(path), TimestampKeyOf(path), RelativePathOf(path)>>

\* the positions of the workspace files of the file map
WorkspacePositions == {i \in 1..Len(sFiles) : IsWorkspaceFile(sFiles[i])}

\* C26: workspace files accumulate as agentId -> timestampKey ->
\* relativePath -> content, agentId being the agent that owns the workspace:
\* a workspace file under a final segment without timestamp
\* (turn_1/attempt_1/final/agent_a/workspace/f.txt, or its "__" form) is
\* stored under agent "agent_a" with timestampKey "final", and one with
\* neither timestamp nor final segment under timestampKey "default".
C26_WorkspaceAccumulation ==
    (sPc = "done" /\ sOut.t = "data") =>
        /\ DOMAIN sOut.workspaceFiles
               = {WorkspaceKeyOf(sFiles[i].path) : i \in WorkspacePositions}
        /\ \A i \in WorkspacePositions :
               sOut.workspaceFiles[WorkspaceKeyOf(sFiles[i].path)]
                   = sFiles[LastOf({j \in WorkspacePositions :
                                       WorkspaceKeyOf(sFiles[j].path)
                                           = WorkspaceKeyOf(sFiles[i].path)})].content
----------------------------------------------------------------------------
(* Further claims about parseGistFiles.                                    *)

RECURSIVE FilesInGistOrder(_, _)
\* the file map of the bundle with the same file names and final contents
\* of which no file was delivered truncated: the first n files of the gist
\* processed in the order of gist.files, each with its full text
FilesInGistOrder(gist, n) ==
    IF n = 0 THEN <<>>
    ELSE Bind(FilesInGistOrder(gist, n - 1), LAMBDA files :
             processFileContent(files, gist[n].filename,
                                unflattenPath(gist[n].filename), gist[n].raw))

\* every secondary fetch was answered with the full text of its file
AllFetchedInFull ==
    \A k \in 1..Len(fPromises) : fPromises[k].outcome = "ok"

\* the entries of a file map that are strings or JSON values: the files the
\* loops of extractSessionData route
RoutedEntries(files) ==
    FilterSeq(files, {n \in 1..Len(files) : "t" \in DOMAIN files[n].content})

\* C29: the file map, with its key iteration order and so with every
\* last-write-wins choice of the aggregator, depends neither on the order in
\* which the secondary fetches complete nor on which files were delivered
\* truncated: two bundles with the same file names and the same final
\* contents give the same session model.
C29_FileMapOrderIndependent ==
    (fPc = "core" /\ AllFetchedInFull) =>
        /\ fCore = FilesInGistOrder(fGist, Len(fGist))
        /\ extractSessionData(RoutedEntries(fCore))
               = extractSessionData(RoutedEntries(FilesInGistOrder(fGist, Len(fGist))))

============================================================================
